---- MODULE Spec2Model ----
(***************************************************************************)
(* Model of sugar's Apple Container dummy runtime                          *)
(* (src/sugar/extensions/apple_container_dummy.py), of the extension that  *)
(* drives it (src/sugar/extensions/apple_container.py), of the swarm name  *)
(* resolver, command dispatcher and command handlers                       *)
(* (src/sugar/extensions/swarm.py) and of the log viewer screen of the     *)
(* terminal interface (src/sugar/tui/screens/logs.py).                     *)
(***************************************************************************)
EXTENDS Integers, Sequences, FiniteSets, TLC

(***************************************************************************)
(* Bounds and input domains                                                *)
(***************************************************************************)
\* datetime.now() is drawn from 1..MaxTime (the wall clock need not be
\* monotonic); 0 stands for a timestamp key that is not in the record.
MaxTime == 1
Times == 1..MaxTime
NoTime == 0

Names == {"c1", "c2"}
Images == {"img1", "img2"}
\* **kwargs of create: none, or one with a tuple value.  json.dump writes a
\* tuple as a JSON array, which json.load reads back as a list.
Configs == {"{}", "{ports:(1,2)}"}

VARIABLES
    file,       \* the state file on disk: [kind, doc]
    inst,       \* "none" | "ready" | "crashed": the AppleContainerDummy object
    state,      \* self.state of the instance
    last,       \* the last call: [op, name, image, ret, wrote]
    ext         \* the AppleContainerExtension object: "none" | "dummy"
                \* (use_dummy=True, its runtime is the instance) | "real"

dummyVars == <<file, inst, state, last, ext>>

\* The swarm commands
VARIABLES
    reporter,   \* SugarLogs.raise_error: "exit" ends the process, "mock"
                \* is the test double that returns to the caller
    pc,         \* "called": the command has its arguments; "done": it ran
    req,        \* the call being made and its arguments
    res,        \* what the call did: result, errors signalled, backend calls
    self_backend_args   \* self.backend_args of the command object

swarmVars == <<reporter, pc, req, res, self_backend_args>>

\* The log viewer screen of the terminal interface
VARIABLES
    _screen_stack,  \* the screens pushed over the main one, last on top
    mounted,    \* the LogsScreen instance has handled its Mount event
    shown,      \* the logs screen is the screen on top of the stack
    following,  \* self.following
    _interval,  \* self._interval: "None" or "Timer"
    timers,     \* how many interval timers of the screen are running
    log_level,  \* self.log_level: "None" or a level
    selected_container_name,    \* "None" or the name last fetched
    widgets,    \* the follow button, the status line, the filter buttons
    display,    \* the text of #logs-display
    event       \* the last event the screen handled

logsVars ==
    <<_screen_stack, mounted, shown, following, _interval, timers,
      log_level, selected_container_name, widgets, display, event>>

vars == <<dummyVars, swarmVars, logsVars>>

(***************************************************************************)
(* AppleContainerDummy                                                     *)
(***************************************************************************)
NoContainers == [n \in {} |-> 0]

\* A dict keeps its keys in the order they were inserted: keys is
\* list(self.state['containers'].keys()), and json.dump and json.load keep
\* that order.
_empty_state ==
    [containers |-> NoContainers, keys |-> <<>>, images |-> <<>>,
     networks |-> <<>>, volumes |-> <<>>]

\* json.dump followed by json.load: str keys and str values come back
\* unchanged, a tuple comes back as a list.
JsonConfig(cfg) == IF cfg = "{ports:(1,2)}" THEN "{ports:[1,2]}" ELSE cfg

JsonDoc(st) ==
    [st EXCEPT !.containers =
        [n \in DOMAIN st.containers |->
            [st.containers[n] EXCEPT !.config = JsonConfig(@)]]]

MissingFile == [kind |-> "missing", doc |-> _empty_state]
\* A path in a directory that does not exist: os.path.exists is false and
\* open(..., 'w') raises FileNotFoundError, an IOError.
NoDirFile == [kind |-> "nodir", doc |-> _empty_state]
EmptyFile == [kind |-> "empty", doc |-> _empty_state]
GarbageFile == [kind |-> "garbage", doc |-> _empty_state]
BinaryFile == [kind |-> "binary", doc |-> _empty_state]
JsonFile(st) == [kind |-> "json", doc |-> JsonDoc(st)]

\* os.path.exists false -> empty state; json.load raising JSONDecodeError
\* (empty or malformed text) or open raising IOError -> empty state; bytes
\* that do not decode raise UnicodeDecodeError, which is not caught.
_load_state(f) ==
    IF f.kind \in {"missing", "nodir"}
    THEN [raised |-> "", state |-> _empty_state]
    ELSE IF f.kind = "json" THEN [raised |-> "", state |-> f.doc]
    ELSE IF f.kind \in {"empty", "garbage"}
         THEN [raised |-> "", state |-> _empty_state]
    ELSE [raised |-> "UnicodeDecodeError", state |-> _empty_state]

\* _save_state on the file f: json.dump of self.state, or, when open
\* raises IOError, RuntimeError('Failed to save state: ...') with the file
\* as it was.
_save_state(f, st) ==
    IF f.kind = "nodir" THEN [raised |-> "RuntimeError", file |-> f]
    ELSE [raised |-> "", file |-> JsonFile(st)]

Record(image, now, cfg) ==
    [image |-> image, status |-> "created", created_at |-> now,
     started_at |-> NoTime, stopped_at |-> NoTime, config |-> cfg]

Result(ret, st, save) == [ret |-> ret, state |-> st, save |-> save]

\* create without the presence test: an existing record is replaced.
create_overwrites(st, name, image, cfg, now) ==
    Result("True",
           [st EXCEPT !.containers =
                          (name :> Record(image, now, cfg)) @@ @,
                      !.keys = IF name \in DOMAIN st.containers THEN @
                               ELSE Append(@, name)],
           TRUE)

create(st, name, image, cfg, now) ==
    IF name \in DOMAIN st.containers
    THEN Result("False", st, FALSE)
    ELSE Result("True",
                [st EXCEPT !.containers = @ @@ (name :> Record(image, now, cfg)),
                           !.keys = Append(@, name)],
                TRUE)

\* start that makes the record when it is missing.
start_upserts(st, name, now) ==
    Result("True",
           [st EXCEPT !.containers =
               (name :> [IF name \in DOMAIN @ THEN @[name]
                         ELSE Record("", now, "{}")
                         EXCEPT !.status = "running", !.started_at = now])
               @@ @,
                      !.keys = IF name \in DOMAIN st.containers THEN @
                               ELSE Append(@, name)],
           TRUE)

start(st, name, now) ==
    IF name \notin DOMAIN st.containers
    THEN Result("False", st, FALSE)
    ELSE Result("True",
                [st EXCEPT !.containers[name].status = "running",
                           !.containers[name].started_at = now],
                TRUE)

\* stop that writes the status 'exited'.
stop_exits(st, name, now) ==
    IF name \notin DOMAIN st.containers
    THEN Result("False", st, FALSE)
    ELSE Result("True",
                [st EXCEPT !.containers[name].status = "exited",
                           !.containers[name].stopped_at = now],
                TRUE)

stop(st, name, now) ==
    IF name \notin DOMAIN st.containers
    THEN Result("False", st, FALSE)
    ELSE Result("True",
                [st EXCEPT !.containers[name].status = "stopped",
                           !.containers[name].stopped_at = now],
                TRUE)

\* remove that only marks the record instead of deleting it.
remove_marks(st, name) ==
    IF name \notin DOMAIN st.containers
    THEN Result("False", st, FALSE)
    ELSE Result("True", [st EXCEPT !.containers[name].status = "removed"],
                TRUE)

remove(st, name) ==
    IF name \notin DOMAIN st.containers
    THEN Result("False", st, FALSE)
    ELSE LET Other(k) == k # name
         IN Result("True",
                   [st EXCEPT !.containers =
                                  [n \in DOMAIN @ \ {name} |-> @[n]],
                              !.keys = SelectSeq(@, Other)],
                   TRUE)

\* pause that forgets self._save_state().
pause_unsaved(st, name) ==
    IF name \notin DOMAIN st.containers
    THEN Result("False", st, FALSE)
    ELSE Result("True", [st EXCEPT !.containers[name].status = "paused"],
                FALSE)

pause(st, name) ==
    IF name \notin DOMAIN st.containers
    THEN Result("False", st, FALSE)
    ELSE Result("True", [st EXCEPT !.containers[name].status = "paused"], TRUE)

unpause(st, name) ==
    IF name \notin DOMAIN st.containers
    THEN Result("False", st, FALSE)
    ELSE Result("True", [st EXCEPT !.containers[name].status = "running"], TRUE)

get_containers(st) == st.containers

\* None is modelled as the empty sequence of records.
get_container(st, name) ==
    IF name \in DOMAIN st.containers THEN <<st.containers[name]>> ELSE <<>>

clean(st) == Result("None", _empty_state, TRUE)

(***************************************************************************)
(* Actions of the dummy runtime                                            *)
(***************************************************************************)
\* One call of a mutating method: the method body and, when it reaches
\* self._save_state(), the write of the state file.  The call returns what
\* the body returns, or ends in the RuntimeError of a save that failed,
\* with self.state changed already.
Call(op, name, image, r) ==
    /\ inst = "ready"
    /\ state' = r.state
    /\ LET saved == IF r.save THEN _save_state(file, r.state)
                    ELSE [raised |-> "", file |-> file]
       IN /\ file' = saved.file
          /\ last' = [op |-> op, name |-> name, image |-> image,
                      ret |-> IF saved.raised = "" THEN r.ret
                              ELSE saved.raised,
                      wrote |-> r.save /\ saved.raised = ""]
    /\ UNCHANGED <<inst, ext>>
    /\ UNCHANGED <<swarmVars, logsVars>>

\* AppleContainerDummy(state_file): a (new) instance on the same file.
Construct ==
    /\ LET l == _load_state(file) IN
         /\ state' = l.state
         /\ inst' = IF l.raised = "" THEN "ready" ELSE "crashed"
         /\ last' = [op |-> "__init__", name |-> "", image |-> "",
                     ret |-> IF l.raised = "" THEN "None" ELSE l.raised,
                     wrote |-> FALSE]
    /\ UNCHANGED <<file, ext>>
    /\ UNCHANGED <<swarmVars, logsVars>>

\* The calls made are create(n, 'img1') and create(n, 'img2', ports=(1, 2)).
Create == \E n \in Names, i \in Images, t \in Times :
            \E c \in {k \in Configs : (k = "{}") <=> (i = "img1")} :
                Call("create", n, i, create(state, n, i, c, t))
Start == \E n \in Names, t \in Times : Call("start", n, "", start(state, n, t))
Stop == \E n \in Names, t \in Times : Call("stop", n, "", stop(state, n, t))
Remove == \E n \in Names : Call("remove", n, "", remove(state, n))
Pause == \E n \in Names : Call("pause", n, "", pause(state, n))
Unpause == \E n \in Names : Call("unpause", n, "", unpause(state, n))
Clean == Call("clean", "", "", clean(state))

NoCall == [op |-> "", name |-> "", image |-> "", ret |-> "None",
           wrote |-> FALSE]

InitDummy ==
    /\ file \in {MissingFile, NoDirFile, EmptyFile, GarbageFile, BinaryFile}
    /\ inst = "none"
    /\ state = _empty_state
    /\ last = NoCall
    /\ ext = "none"

NextDummy ==
    \/ Construct
    \/ Create
    \/ Start
    \/ Stop
    \/ Remove
    \/ Pause
    \/ Unpause
    \/ Clean

(***************************************************************************)
(* Swarm: name resolver and command dispatcher (SugarSwarmBase)            *)
(***************************************************************************)
\* Strings that the code splits, trims or prefixes are sequences of
\* one-character strings: 'a,b' is <<"a", ",", "b">>.
MaxLen == 4
RECURSIVE StringsUpTo(_)
StringsUpTo(n) ==
    IF n = 0 THEN {<<>>}
    ELSE LET shorter == StringsUpTo(n - 1) IN
         shorter \cup {Append(w, c) : w \in {x \in shorter : Len(x) = n - 1},
                                       c \in {"a", "s", "_", ",", " "}}
ServiceStrings == StringsUpTo(MaxLen)
StackNames == {<<>>, <<"s">>}

\* Arguments of _call_command
SubCommands == {"init", "ps"}
NameLists == {<<>>, <<<<"a">>>>, <<<<"s">>, <<"a">>>>}
TokenLists == {<<>>, <<"--pretty">>, <<"--advertise-addr", "192.168.1.1">>}

SUGAR_INVALID_PARAMETER == "SUGAR_INVALID_PARAMETER"
MSG_ERROR_SERVICES_NAME ==
    "Service name must be provided for this command (use --services service1,service2)"
MSG_ERROR_BOTH == "Give services or nodes arguments, not both."

\* str.split(sep): always at least one fragment, empty fragments kept.
RECURSIVE Split(_, _)
Split(s, sep) ==
    IF \A i \in 1..Len(s) : s[i] # sep THEN <<s>>
    ELSE LET k == CHOOSE i \in 1..Len(s) :
                    s[i] = sep /\ \A j \in 1..(i - 1) : s[j] # sep
         IN <<SubSeq(s, 1, k - 1)>> \o Split(SubSeq(s, k + 1, Len(s)), sep)

Error(code, msg) == [code |-> code, msg |-> msg]

\* SugarLogs.raise_error(message, code) as seen by the caller: TRUE when
\* control does not come back (the process exits).
raise_error(rep) == rep = "exit"

Outcome(ret, errors, backend, exited) ==
    [ret |-> ret, errors |-> errors, backend |-> backend, exited |-> exited]

\* A resolver in which all=True stands for "no explicit names needed".
_get_services_names_all(kw, rep) ==
    IF (~kw.hasAll /\ ~kw.hasServices) \/ (kw.all /\ kw.services = <<>>)
    THEN Outcome(<<>>, <<>>, <<>>, FALSE)
    ELSE LET errors == IF kw.services = <<>>
                       THEN <<Error(SUGAR_INVALID_PARAMETER,
                                    MSG_ERROR_SERVICES_NAME)>>
                       ELSE <<>>
             services_list == Split(kw.services, ",")
         IN IF errors # <<>> /\ raise_error(rep)
            THEN Outcome(<<>>, errors, <<>>, TRUE)
            ELSE Outcome(IF kw.stack # <<>>
                         THEN [i \in DOMAIN services_list |->
                                 kw.stack \o <<"_">> \o services_list[i]]
                         ELSE services_list,
                         errors, <<>>, FALSE)

\* kw: the keyword arguments; hasServices/hasAll say whether the key is
\* among them, a missing 'stack' reads as ''.
_get_services_names(kw, rep) ==
    IF ~kw.hasAll /\ ~kw.hasServices
    THEN Outcome(<<>>, <<>>, <<>>, FALSE)
    ELSE LET _arg_services == IF kw.hasServices THEN kw.services ELSE <<>>
             _arg_stack == kw.stack
             errors == IF _arg_services = <<>>
                       THEN <<Error(SUGAR_INVALID_PARAMETER,
                                    MSG_ERROR_SERVICES_NAME)>>
                       ELSE <<>>
             services_list == Split(_arg_services, ",")
         IN IF errors # <<>> /\ raise_error(rep)
            THEN Outcome(<<>>, errors, <<>>, TRUE)
            ELSE Outcome(IF _arg_stack # <<>>
                         THEN [i \in DOMAIN services_list |->
                                 _arg_stack \o <<"_">> \o services_list[i]]
                         ELSE services_list,
                         errors, <<>>, FALSE)

\* One invocation of self._call_backend_app(subcommand, **kwargs).
BackendCall(subcommand, hasServices, services, hasNodes, nodes, options_args, cmd_args) ==
    [subcommand |-> subcommand,
     hasServices |-> hasServices, services |-> services,
     hasNodes |-> hasNodes, nodes |-> nodes,
     options_args |-> options_args, cmd_args |-> cmd_args]

\* A dispatcher without the services-and-nodes test.
_call_command_unchecked(subcommand, services, nodes, options_args, cmd_args, rep) ==
    Outcome(<<>>, <<>>,
            <<BackendCall(subcommand, services # <<>> \/ nodes = <<>>,
                          services, nodes # <<>>, nodes,
                          options_args, cmd_args)>>,
            FALSE)

_call_command(subcommand, services, nodes, options_args, cmd_args, rep) ==
    LET errors == IF services # <<>> /\ nodes # <<>>
                  THEN <<Error(SUGAR_INVALID_PARAMETER, MSG_ERROR_BOTH)>>
                  ELSE <<>>
    IN IF errors # <<>> /\ raise_error(rep)
       THEN Outcome(<<>>, errors, <<>>, TRUE)
       ELSE Outcome(<<>>, errors,
                    <<IF services # <<>>
                      THEN BackendCall(subcommand, TRUE, services, FALSE, <<>>,
                                       options_args, cmd_args)
                      ELSE IF nodes # <<>>
                      THEN BackendCall(subcommand, FALSE, <<>>, TRUE, nodes,
                                       options_args, cmd_args)
                      ELSE BackendCall(subcommand, TRUE, <<>>, FALSE, <<>>,
                                       options_args, cmd_args)>>,
                    FALSE)

Request(op, kw, subcommand, services, nodes, options_args, cmd_args) ==
    [op |-> op, kw |-> kw, subcommand |-> subcommand, services |-> services,
     nodes |-> nodes, options_args |-> options_args, cmd_args |-> cmd_args]

NoKw == [hasServices |-> FALSE, services |-> <<>>, hasAll |-> FALSE,
         all |-> FALSE, stack |-> <<>>]

GetServicesNamesRequests ==
    {Request("_get_services_names",
             [hasServices |-> hs, services |-> IF hs THEN sv ELSE <<>>,
              hasAll |-> ha, all |-> ha /\ al, stack |-> st],
             "", <<>>, <<>>, <<>>, <<>>) :
        hs \in BOOLEAN, sv \in ServiceStrings, ha \in BOOLEAN,
        al \in BOOLEAN, st \in StackNames}

CallCommandRequests ==
    {Request("_call_command", NoKw, sc, sv, nd, oa, ca) :
        sc \in SubCommands, sv \in NameLists, nd \in NameLists,
        oa \in TokenLists, ca \in TokenLists}

NoRequest == Request("", NoKw, "", <<>>, <<>>, <<>>, <<>>)
NoOutcome == Outcome(<<>>, <<>>, <<>>, FALSE)

\* A dispatcher that puts the subcommand into self.backend_args, as the
\* stack commands do with theirs.
CallCommandRebinding ==
    /\ pc = "called"
    /\ req.op = "_call_command"
    /\ res' = _call_command(req.subcommand, req.services, req.nodes,
                            req.options_args, req.cmd_args, reporter)
    /\ self_backend_args' = self_backend_args \o <<req.subcommand>>
    /\ pc' = "done"
    /\ UNCHANGED <<reporter, req>>
    /\ UNCHANGED <<dummyVars, logsVars>>

\* One process runs one command: the arguments are fixed when it starts.
GetServicesNames ==
    /\ pc = "called"
    /\ req.op = "_get_services_names"
    /\ res' = _get_services_names(req.kw, reporter)
    /\ pc' = "done"
    /\ UNCHANGED <<reporter, req, self_backend_args>>
    /\ UNCHANGED <<dummyVars, logsVars>>

CallCommand ==
    /\ pc = "called"
    /\ req.op = "_call_command"
    /\ res' = _call_command(req.subcommand, req.services, req.nodes,
                            req.options_args, req.cmd_args, reporter)
    /\ pc' = "done"
    /\ UNCHANGED <<reporter, req, self_backend_args>>
    /\ UNCHANGED <<dummyVars, logsVars>>

(***************************************************************************)
(* Swarm: what a command handler does, in program order                    *)
(***************************************************************************)
SUGAR_INVALID_CONFIGURATION == "SUGAR_INVALID_CONFIGURATION"
SUGAR_COMMAND_ERROR == "SUGAR_COMMAND_ERROR"
MSG_ERROR_STACK_NAME == "Stack name must be provided"
MSG_ERROR_NODES_NAME == "Node name(s) must be provided"

\* The flag tokens the handlers append, as character sequences like the
\* tokens of an options string.
DETACH == <<"-", "-", "d", "e", "t", "a", "c", "h">>
QUIET == <<"-", "-", "q", "u", "i", "e", "t">>

\* Options strings: '', '-f' and '-t  -f'.
OptionStrings == {<<>>, <<"-", "f">>, <<"-", "t", " ", " ", "-", "f">>}

RECURSIVE Strip(_)
Strip(s) ==
    IF s = <<>> THEN s
    ELSE IF Head(s) = " " THEN Strip(Tail(s))
    ELSE IF s[Len(s)] = " " THEN Strip(SubSeq(s, 1, Len(s) - 1))
    ELSE s

NotEmpty(s) == s # <<>>

\* self._get_list_args(options): the tokens between runs of blanks.
_get_list_args(options) == SelectSeq(Split(options, " "), NotEmpty)

\* The effects of a handler so far: raise_error calls, dispatcher calls,
\* backend invocations, warnings and printed lines, the order of all of them
\* (trace), the exception that ended it and whether the process exited.
Done(errors, calls, backend, warnings, prints, trace, raised, exited) ==
    [errors |-> errors, calls |-> calls, backend |-> backend,
     warnings |-> warnings, prints |-> prints, trace |-> trace,
     raised |-> raised, exited |-> exited]

Nothing == Done(<<>>, <<>>, <<>>, <<>>, <<>>, <<>>, "", FALSE)

\* Statement a followed by statement b: b runs only if a came back.
Then(a, b) ==
    IF a.exited \/ a.raised # "" THEN a
    ELSE Done(a.errors \o b.errors, a.calls \o b.calls,
              a.backend \o b.backend, a.warnings \o b.warnings,
              a.prints \o b.prints, a.trace \o b.trace, b.raised, b.exited)

\* SugarLogs.raise_error(msg, code)
Signal(code, msg, rep) ==
    Done(<<Error(code, msg)>>, <<>>, <<>>, <<>>, <<>>, <<"raise_error">>,
         "", raise_error(rep))

\* raise exc
Raise(exc) == Done(<<>>, <<>>, <<>>, <<>>, <<>>, <<>>, exc, FALSE)

\* A warning or a printed line: the format string and what fills it.
Message(text, service, ok, bad) ==
    [text |-> text, service |-> service, ok |-> ok, bad |-> bad]

\* SugarLogs.print_warning(w)
Warn(w) == Done(<<>>, <<>>, <<>>, <<w>>, <<>>, <<"print_warning">>, "", FALSE)

\* print(p)
Say(p) == Done(<<>>, <<>>, <<>>, <<>>, <<p>>, <<"print">>, "", FALSE)

\* One invocation of the backend.
Invoke(call) == Done(<<>>, <<>>, <<call>>, <<>>, <<>>, <<"backend">>, "", FALSE)

\* The effects of a call of _get_services_names or _call_command.
FromOutcome(o) ==
    Done(o.errors, <<>>, o.backend, <<>>, <<>>,
         [i \in 1..Len(o.errors) |-> "raise_error"]
             \o [i \in 1..Len(o.backend) |-> "backend"],
         "", o.exited)

\* The arguments of one self._call_command(subcommand, ...) call of a
\* handler; hasServices/hasNodes say whether the keyword is passed.
CommandCall(subcommand, hasServices, services, hasNodes, nodes, options_args) ==
    [subcommand |-> subcommand, hasServices |-> hasServices,
     services |-> services, hasNodes |-> hasNodes, nodes |-> nodes,
     options_args |-> options_args]

\* self._call_command(subcommand, services=..., nodes=..., options_args=...)
Dispatch(subcommand, hasServices, services, hasNodes, nodes, options_args, rep) ==
    Then(Done(<<>>,
              <<CommandCall(subcommand, hasServices, services, hasNodes,
                            nodes, options_args)>>,
              <<>>, <<>>, <<>>, <<"_call_command">>, "", FALSE),
         FromOutcome(_call_command(subcommand, services, nodes, options_args,
                                   <<>>, rep)))

(***************************************************************************)
(* validation.require_not_blank                                            *)
(***************************************************************************)
\* _emit_error: report, and raise ValueError if the reporter comes back.
_emit_error(message, rep) ==
    Then(Signal(SUGAR_INVALID_PARAMETER, message, rep), Raise("ValueError"))

\* A wrapper that tests the value as given, without strip().
require_not_blank_unstripped(param, value, rep) ==
    IF value = <<>>
    THEN _emit_error(IF param = "replicas"
                     THEN "Value for \"--replicas\" is required."
                     ELSE "Value for \"--stack\" is required.",
                     rep)
    ELSE Nothing

\* The wrapper's test of one argument before the wrapped function runs.
require_not_blank(param, value, rep) ==
    IF Strip(value) = <<>>
    THEN _emit_error(IF param = "replicas"
                     THEN "Value for \"--replicas\" is required."
                     ELSE "Value for \"--stack\" is required.",
                     rep)
    ELSE Nothing

(***************************************************************************)
(* SugarSwarmService: scale                                                *)
(***************************************************************************)
\* The loop over replicas.split(','): the targets built and what happened.
RECURSIVE ScalePairs(_, _, _)
ScalePairs(frags, stack, rep) ==
    IF frags = <<>> THEN [out |-> Nothing, pairs |-> <<>>]
    ELSE LET pair == Head(frags)
             parts == Split(pair, "=")
             names == _get_services_names(
                          [hasServices |-> TRUE, services |-> parts[1],
                           hasAll |-> TRUE, all |-> FALSE, stack |-> stack],
                          rep)
             rest == ScalePairs(Tail(frags), stack, rep)
         IN IF pair = <<>> THEN rest
            ELSE IF Len(parts) # 2
            THEN [out |-> Raise("ValueError"), pairs |-> <<>>]
            ELSE IF names.exited
            THEN [out |-> FromOutcome(names), pairs |-> <<>>]
            ELSE [out |-> Then(FromOutcome(names), rest.out),
                  pairs |-> <<names.ret[1] \o <<"=">> \o parts[2]>>
                                \o rest.pairs]

\* A scale that resolves the names without the stack.
SugarSwarmService_cmd_scale_bare(replicas, stack, detach, options, rep) ==
    LET loop == ScalePairs(Split(replicas, ","), <<>>, rep)
    IN Then(require_not_blank("replicas", replicas, rep),
       Then(require_not_blank("stack", stack, rep),
       Then(loop.out,
            Dispatch("scale", TRUE, loop.pairs, FALSE, <<>>,
                     _get_list_args(options), rep))))

SugarSwarmService_cmd_scale(replicas, stack, detach, options, rep) ==
    LET opts == _get_list_args(options)
                    \o (IF detach THEN <<DETACH>> ELSE <<>>)
        loop == ScalePairs(Split(replicas, ","), stack, rep)
    IN Then(require_not_blank("replicas", replicas, rep),
       Then(require_not_blank("stack", stack, rep),
       Then(IF replicas = <<>>
            THEN Signal(SUGAR_INVALID_PARAMETER,
                        "Services must be provided in format service=replicas[,..]",
                        rep)
            ELSE Nothing,
       Then(loop.out,
            Dispatch("scale", TRUE, loop.pairs, FALSE, <<>>,
                     _get_list_args(options), rep)))))

(***************************************************************************)
(* SugarSwarmService: rollback                                             *)
(***************************************************************************)
\* What the backend does with one 'service rollback' call: it raises, or
\* it returns with this text on stderr.
NO_PREVIOUS_SPEC == "service web does not have a previous spec"
BackendResults ==
    {[raises |-> FALSE, stderr |-> e] :
        e \in {"", NO_PREVIOUS_SPEC, "no such service: web"}}
        \cup {[raises |-> TRUE, stderr |-> ""]}

\* 'does not have a previous spec' in err
HasNoPreviousSpec(err) == err = NO_PREVIOUS_SPEC

\* self.backend_app('service', 'rollback', *options_args, service, ...)
RollbackCall(options_args, service) ==
    [args |-> <<"service", "rollback">>, options_args |-> options_args,
     service |-> service, ok_code |-> {0, 1}]

\* Any non-empty stderr without the 'previous spec' text counts as success.
_perform_service_rollback_lenient(service, options_args, result) ==
    LET call == Invoke(RollbackCall(options_args, service))
    IN IF result.raises
       THEN [ret |-> FALSE,
             out |-> Then(call, Warn(Message(
                       "Error rolling back service {service}: {e!s}",
                       service, 0, 0)))]
       ELSE IF HasNoPreviousSpec(result.stderr)
       THEN [ret |-> FALSE,
             out |-> Then(call, Warn(Message(
                       "Service {service} has no previous version to rollback to",
                       service, 0, 0)))]
       ELSE [ret |-> TRUE,
             out |-> Then(call, Say(Message(
                       "Successfully rolled back service {service}",
                       service, 0, 0)))]

_perform_service_rollback(service, options_args, result) ==
    LET call == Invoke(RollbackCall(options_args, service))
    IN IF result.raises
       THEN [ret |-> FALSE,
             out |-> Then(call, Warn(Message(
                       "Error rolling back service {service}: {e!s}",
                       service, 0, 0)))]
       ELSE IF HasNoPreviousSpec(result.stderr)
       THEN [ret |-> FALSE,
             out |-> Then(call, Warn(Message(
                       "Service {service} has no previous version to rollback to",
                       service, 0, 0)))]
       ELSE IF result.stderr # ""
       THEN [ret |-> FALSE,
             out |-> Then(call, Warn(Message(
                       "Failed to rollback service {service}: {err.strip()}",
                       service, 0, 0)))]
       ELSE [ret |-> TRUE,
             out |-> Then(call, Say(Message(
                       "Successfully rolled back service {service}",
                       service, 0, 0)))]

\* A loop that stops at the first service that fails.
RECURSIVE RollbackLoopAborting(_, _, _)
RollbackLoopAborting(targets, opts, results) ==
    IF targets = <<>> THEN [ok |-> 0, bad |-> 0, out |-> Nothing]
    ELSE LET step == _perform_service_rollback(Head(targets), opts,
                                               Head(results))
             rest == RollbackLoopAborting(Tail(targets), opts, Tail(results))
         IN IF step.ret
            THEN [ok |-> 1 + rest.ok, bad |-> rest.bad,
                  out |-> Then(step.out, rest.out)]
            ELSE [ok |-> 0, bad |-> 1, out |-> step.out]

\* for svc in targets: the i-th backend call gets the i-th result.
RECURSIVE RollbackLoop(_, _, _)
RollbackLoop(targets, opts, results) ==
    IF targets = <<>> THEN [ok |-> 0, bad |-> 0, out |-> Nothing]
    ELSE LET step == _perform_service_rollback(Head(targets), opts,
                                               Head(results))
             rest == RollbackLoop(Tail(targets), opts, Tail(results))
         IN [ok |-> (IF step.ret THEN 1 ELSE 0) + rest.ok,
             bad |-> (IF step.ret THEN 0 ELSE 1) + rest.bad,
             out |-> Then(step.out, rest.out)]

SugarSwarmService_cmd_rollback(service, stack, detach, quiet, options, results, rep) ==
    LET opts == _get_list_args(options)
                    \o (IF detach THEN <<DETACH>> ELSE <<>>)
                    \o (IF quiet THEN <<QUIET>> ELSE <<>>)
        names == _get_services_names(
                     [hasServices |-> TRUE, services |-> service,
                      hasAll |-> TRUE, all |-> FALSE, stack |-> stack],
                     rep)
        targets == names.ret
        loop == RollbackLoop(targets, opts, results)
    IN Then(FromOutcome(names),
            IF targets = <<>>
            THEN Warn(Message(
                       "No services specified for rollback",
                       <<>>, 0, 0))
            ELSE Then(loop.out,
                      Say(Message(
                        "Rollback complete: {ok} succeeded, {bad} failed",
                        <<>>, loop.ok, loop.bad))))

(***************************************************************************)
(* SugarSwarm                                                              *)
(***************************************************************************)
SwarmOps ==
    {"SugarSwarm._cmd_ca", "SugarSwarm._cmd_init", "SugarSwarm._cmd_join",
     "SugarSwarm._cmd_join_token", "SugarSwarm._cmd_leave",
     "SugarSwarm._cmd_unlock", "SugarSwarm._cmd_unlock_key"}

\* Each handler tokenizes its options and makes one _call_command call
\* with the subcommand written in its body.
SwarmCommand(op, options, rep) ==
    Dispatch(CASE op = "SugarSwarm._cmd_ca" -> "join"
               [] op = "SugarSwarm._cmd_init" -> "init"
               [] op = "SugarSwarm._cmd_join" -> "join"
               [] op = "SugarSwarm._cmd_join_token" -> "join-token"
               [] op = "SugarSwarm._cmd_leave" -> "leave"
               [] op = "SugarSwarm._cmd_unlock" -> "unlock"
               [] op = "SugarSwarm._cmd_unlock_key" -> "unlock-key",
             FALSE, <<>>, FALSE, <<>>, _get_list_args(options), rep)

(***************************************************************************)
(* SugarSwarmService: inspect                                              *)
(***************************************************************************)
SugarSwarmService_cmd_inspect(stack, services, all, options, rep) ==
    LET services_names == _get_services_names(
                              [hasServices |-> TRUE, services |-> services,
                               hasAll |-> TRUE, all |-> all, stack |-> stack],
                              rep)
    IN Then(require_not_blank("stack", stack, rep),
       Then(FromOutcome(services_names),
            Dispatch("inspect", TRUE, services_names.ret, FALSE, <<>>,
                     _get_list_args(options), rep)))

(***************************************************************************)
(* The remaining handlers and _get_services_from_stack                     *)
(***************************************************************************)
\* sugar.utils.prepend_stack_name(stack_name=..., services=...): each name
\* gets the prefix '<stack>_' unless it carries it already.  Without a
\* stack name it raises ValueError('Stack name must be provided'), as
\* test_cmd_logs_missing_services and test_cmd_logs_with_services expect.
prepend_stack_name(stack_name, services) ==
    IF stack_name = <<>> THEN [raised |-> "ValueError", ret |-> <<>>]
    ELSE LET prefix == stack_name \o <<"_">>
         IN [raised |-> "",
             ret |-> [i \in DOMAIN services |->
                        IF /\ Len(services[i]) >= Len(prefix)
                           /\ SubSeq(services[i], 1, Len(prefix)) = prefix
                        THEN services[i]
                        ELSE prefix \o services[i]]]

\* result is what self.backend_app('stack', 'services', stack, '--format',
\* '{{.Name}}', _out=output) does: it raises e, or it writes output.  The
\* raise_error calls are inside the try block; a reporter that exits the
\* process is not caught by 'except Exception', and one that comes back
\* lets the empty list be returned.
_get_services_from_stack(stack, result, rep) ==
    LET call == [args |-> <<"stack", "services", stack, "--format",
                           "{{.Name}}">>]
        services_output == result.output
        inner == {i \in DOMAIN services_output :
                     services_output[i] \notin {" ", "\n"}}
        stripped ==
            IF inner = {} THEN <<>>
            ELSE SubSeq(services_output,
                        CHOOSE i \in inner : \A j \in inner : i <= j,
                        CHOOSE i \in inner : \A j \in inner : i >= j)
        services == SelectSeq(Split(stripped, "\n"), NotEmpty)
    IN IF result.raised
       THEN [out |-> Then(Invoke(call),
                          Signal(SUGAR_COMMAND_ERROR,
                                 [text |-> "Failed to get services from stack {stack}: {e!s}",
                                  stack |-> stack, e |-> result.e],
                                 rep)),
             ret |-> <<>>]
       ELSE [out |-> Then(Invoke(call),
                          IF services = <<>>
                          THEN Signal(SUGAR_INVALID_PARAMETER,
                                      [text |-> "No services found in stack {stack}",
                                       stack |-> stack, e |-> ""],
                                      rep)
                          ELSE Nothing),
             ret |-> services]

\* The option tokens the two _cmd_update handlers build, by the same code:
\* the tokens of options, the flags, then image, replicas and one
\* '--env-add' / '--label-add' for every non-blank fragment, stripped.
UpdateOptions(r) ==
    LET FORCE == <<"-", "-", "f", "o", "r", "c", "e">>
        ROLLBACK == <<"-", "-", "r", "o", "l", "l", "b", "a", "c", "k">>
        IMAGE == <<"-", "-", "i", "m", "a", "g", "e">>
        REPLICAS == <<"-", "-", "r", "e", "p", "l", "i", "c", "a", "s">>
        ENV_ADD == <<"-", "-", "e", "n", "v", "-", "a", "d", "d">>
        LABEL_ADD == <<"-", "-", "l", "a", "b", "e", "l", "-", "a", "d", "d">>
        RECURSIVE Pairs(_, _)
        Pairs(flag, frags) ==
            IF frags = <<>> THEN <<>>
            ELSE (IF Strip(Head(frags)) # <<>>
                  THEN <<flag, Strip(Head(frags))>>
                  ELSE <<>>) \o Pairs(flag, Tail(frags))
    IN _get_list_args(r.options)
         \o (IF r.detach THEN <<DETACH>> ELSE <<>>)
         \o (IF r.quiet THEN <<QUIET>> ELSE <<>>)
         \o (IF r.force THEN <<FORCE>> ELSE <<>>)
         \o (IF r.rollback THEN <<ROLLBACK>> ELSE <<>>)
         \o (IF r.image # <<>> THEN <<IMAGE, r.image>> ELSE <<>>)
         \o (IF r.replicas # <<>> THEN <<REPLICAS, r.replicas>> ELSE <<>>)
         \o (IF r.env_add # <<>>
             THEN Pairs(ENV_ADD, Split(r.env_add, ",")) ELSE <<>>)
         \o (IF r.label_add # <<>>
             THEN Pairs(LABEL_ADD, Split(r.label_add, ",")) ELSE <<>>)

\* The handlers that resolve names, build option tokens and make one
\* _call_command call.  r holds the handler (op) and its arguments.
CommandHandler(r, rep) ==
    LET names == _get_services_names(
                     [hasServices |-> TRUE, services |-> r.services,
                      hasAll |-> TRUE, all |-> r.all, stack |-> <<>>],
                     rep)
        SugarSwarm_cmd_update ==
            Dispatch("update", TRUE, <<>>, FALSE, <<>>, UpdateOptions(r), rep)
        SugarSwarmService_cmd_create ==
            Then(IF r.options = <<>>
                 THEN Signal(SUGAR_INVALID_PARAMETER,
                             "Options must be provided for \"create\". Include --name, image, etc. inside -- .",
                             rep)
                 ELSE Nothing,
                 Dispatch("create", TRUE, <<>>, FALSE, <<>>,
                          _get_list_args(r.options), rep))
        SugarSwarmService_cmd_logs ==
            LET opts ==
                  _get_list_args(r.options)
                    \o (IF r.details THEN <<<<"-", "-", "d", "e", "t", "a", "i", "l", "s">>>> ELSE <<>>)
                    \o (IF r.follow THEN <<<<"-", "-", "f", "o", "l", "l", "o", "w">>>> ELSE <<>>)
                    \o (IF r.no_resolve
                        THEN <<<<"-", "-", "n", "o", "-", "r", "e", "s", "o", "l", "v", "e">>>>
                        ELSE <<>>)
                    \o (IF r.no_task_ids
                        THEN <<<<"-", "-", "n", "o", "-", "t", "a", "s", "k", "-", "i", "d", "s">>>>
                        ELSE <<>>)
                    \o (IF r.no_trunc
                        THEN <<<<"-", "-", "n", "o", "-", "t", "r", "u", "n", "c">>>>
                        ELSE <<>>)
                    \o (IF r.raw THEN <<<<"-", "-", "r", "a", "w">>>> ELSE <<>>)
                    \o (IF r.timestamps
                        THEN <<<<"-", "-", "t", "i", "m", "e", "s", "t", "a", "m", "p", "s">>>>
                        ELSE <<>>)
                    \o (IF r.since # <<>>
                        THEN <<<<"-", "-", "s", "i", "n", "c", "e">>, r.since>>
                        ELSE <<>>)
                    \o (IF r.tail # <<>>
                        THEN <<<<"-", "-", "t", "a", "i", "l">>, r.tail>>
                        ELSE <<>>)
                prefixed == prepend_stack_name(r.stack, names.ret)
            IN Then(FromOutcome(names),
                    IF prefixed.raised # ""
                    THEN Raise(prefixed.raised)
                    ELSE Dispatch("logs", TRUE, prefixed.ret, FALSE, <<>>,
                                  opts, rep))
        _cmd_ls ==
            Dispatch("ls", FALSE, <<>>, FALSE, <<>>,
                     _get_list_args(r.options), rep)
        SugarSwarmService_cmd_ps ==
            Then(FromOutcome(names),
                 Dispatch("ps", TRUE, names.ret, FALSE, <<>>,
                          _get_list_args(r.options), rep))
        SugarSwarmService_cmd_rm ==
            Then(FromOutcome(names),
                 Dispatch("rm", TRUE, names.ret, FALSE, <<>>,
                          _get_list_args(r.options), rep))
        SugarSwarmService_cmd_update ==
            Then(FromOutcome(names),
                 Dispatch("update", TRUE, names.ret, FALSE, <<>>,
                          UpdateOptions(r), rep))
    IN CASE r.op = "SugarSwarm._cmd_update" -> SugarSwarm_cmd_update
         [] r.op = "SugarSwarmService._cmd_create" ->
                SugarSwarmService_cmd_create
         [] r.op = "SugarSwarmService._cmd_logs" -> SugarSwarmService_cmd_logs
         [] r.op = "SugarSwarmService._cmd_ls" -> _cmd_ls
         [] r.op = "SugarSwarmService._cmd_ps" -> SugarSwarmService_cmd_ps
         [] r.op = "SugarSwarmService._cmd_rm" -> SugarSwarmService_cmd_rm
         [] r.op = "SugarSwarmService._cmd_update" ->
                SugarSwarmService_cmd_update
         [] r.op = "SugarSwarmNode._cmd_ls" -> _cmd_ls

(***************************************************************************)
(* SugarSwarmNode                                                          *)
(***************************************************************************)
NodeOps ==
    {"SugarSwarmNode._cmd_demote", "SugarSwarmNode._cmd_inspect",
     "SugarSwarmNode._cmd_promote", "SugarSwarmNode._cmd_ps",
     "SugarSwarmNode._cmd_rm", "SugarSwarmNode._cmd_update"}

\* The subcommand each handler passes to _call_command.
NodeSubcommand(op) ==
    CASE op = "SugarSwarmNode._cmd_demote" -> "demote"
      [] op = "SugarSwarmNode._cmd_inspect" -> "inspect"
      [] op = "SugarSwarmNode._cmd_promote" -> "promote"
      [] op = "SugarSwarmNode._cmd_ps" -> "ps"
      [] op = "SugarSwarmNode._cmd_rm" -> "rm"
      [] op = "SugarSwarmNode._cmd_update" -> "update"

\* A handler that passes the names as services.
NodeCommandAsServices(op, nodes, options, rep) ==
    LET node_names == SelectSeq(Split(nodes, ","), NotEmpty)
    IN Then(IF node_names = <<>>
            THEN Signal(SUGAR_INVALID_PARAMETER, MSG_ERROR_NODES_NAME, rep)
            ELSE Nothing,
            Dispatch(NodeSubcommand(op), TRUE, node_names, FALSE, <<>>,
                     _get_list_args(options), rep))

\* The body the six handlers share.
NodeCommand(op, nodes, options, rep) ==
    LET node_names == SelectSeq(Split(nodes, ","), NotEmpty)
    IN Then(IF node_names = <<>>
            THEN Signal(SUGAR_INVALID_PARAMETER, MSG_ERROR_NODES_NAME, rep)
            ELSE Nothing,
            Dispatch(NodeSubcommand(op), FALSE, <<>>, TRUE, node_names,
                     _get_list_args(options), rep))

(***************************************************************************)
(* Compose documents and _normalize_for_stack                              *)
(***************************************************************************)
\* A value of a port mapping: absent (p.get(key) is None), an integer or a
\* string.
Absent == [t |-> "absent", s |-> <<>>, n |-> 0]
IntValue(n) == [t |-> "int", s |-> <<>>, n |-> n]
StrValue(s) == [t |-> "str", s |-> s, n |-> 0]

\* The characters of port strings: two decimal digits, a letter, and "sup2"
\* for the one character SUPERSCRIPT TWO, a digit for str.isdigit() that
\* int() does not accept.
MaxPortLen == 2
Decimals == {"0", "8"}
RECURSIVE StringsOver(_, _)
StringsOver(alphabet, n) ==
    IF n = 0 THEN {<<>>}
    ELSE LET shorter == StringsOver(alphabet, n - 1) IN
         shorter \cup {Append(w, c) : w \in {x \in shorter : Len(x) = n - 1},
                                       c \in alphabet}
PortStrings == StringsOver(Decimals \cup {"a", "sup2"}, MaxPortLen)
PortValues ==
    {Absent} \cup {IntValue(n) : n \in {0, 8, 80}}
             \cup {StrValue(s) : s \in PortStrings}

\* One entry of a service's 'ports': the short form (a string) or a dict
\* with 'published', 'target' and 'mode'.
ShortPort ==
    [dict |-> FALSE, published |-> Absent, target |-> Absent,
     mode |-> <<>>, short |-> <<"8", "0">>]
DictPort(published, target) ==
    [dict |-> TRUE, published |-> published, target |-> target,
     mode |-> <<"8", "0">>, short |-> <<>>]
\* Lists of one or two entries; in a dict entry one of the two keys takes
\* every value while the other takes a few.
PortLists ==
    LET Few == {Absent, IntValue(80), StrValue(<<"8">>), StrValue(<<"a">>)}
        Ports == {ShortPort}
                    \cup {DictPort(p, t) : p \in PortValues, t \in Few}
                    \cup {DictPort(p, t) : p \in Few, t \in PortValues}
        First == {ShortPort, DictPort(StrValue(<<"8", "0">>), IntValue(80))}
    IN {<<>>} \cup {<<p>> : p \in Ports}
              \cup {<<q, p>> : q \in First, p \in Ports}

\* A service: null, or a dict with 'image' and possibly 'ports'.
Service(null, hasPorts, ports) ==
    [null |-> null, hasPorts |-> hasPorts, ports |-> ports,
     image |-> <<"8", "0">>]
ServiceMaps ==
    LET Services == {Service(TRUE, FALSE, <<>>), Service(FALSE, FALSE, <<>>)}
                        \cup {Service(FALSE, TRUE, l) : l \in PortLists}
        Second == {Service(TRUE, FALSE, <<>>),
                   Service(FALSE, TRUE,
                           <<DictPort(StrValue(<<"8">>), StrValue(<<"a">>))>>)}
    IN {<<>>} \cup {[k \in {"web"} |-> s] : s \in Services}
              \cup {[k \in {"db", "web"} |-> IF k = "web" THEN s ELSE t] :
                       s \in Services, t \in Second}

\* A compose document: 'name' (if present), 'version' and 'services'.
Doc(hasName, name, services) ==
    [hasName |-> hasName, name |-> name, version |-> <<"3">>,
     services |-> services]
Docs ==
    {Doc(FALSE, <<>>, m) : m \in ServiceMaps}
        \cup {Doc(TRUE, <<"a">>, m) : m \in ServiceMaps}

\* str.isdigit()
isdigit(s) == s # <<>> /\ \A i \in 1..Len(s) : s[i] \in Decimals \cup {"sup2"}

\* int(s) raises ValueError
IntRaises(s) == s = <<>> \/ \E i \in 1..Len(s) : s[i] \notin Decimals

\* int(s) for a string of decimal digits
RECURSIVE int(_)
int(s) ==
    IF s = <<>> THEN 0
    ELSE 10 * int(SubSeq(s, 1, Len(s) - 1))
            + (IF s[Len(s)] = "8" THEN 8 ELSE 0)

\* for key in ('published', 'target'):
\*     if isinstance(v, str) and v.isdigit(): p[key] = int(v)
NormalizePort(p) ==
    LET Value(v) == IF v.t = "str" /\ isdigit(v.s) /\ ~IntRaises(v.s)
                    THEN IntValue(int(v.s))
                    ELSE v
    IN IF ~p.dict THEN p
       ELSE [p EXCEPT !.published = Value(p.published),
                      !.target = Value(p.target)]

\* The call ends in int()'s ValueError.
NormalizeRaises(doc) ==
    \E k \in DOMAIN doc.services :
       LET svc == doc.services[k] IN
       /\ ~svc.null
       /\ svc.hasPorts
       /\ \E i \in DOMAIN svc.ports :
             /\ svc.ports[i].dict
             /\ \E v \in {svc.ports[i].published, svc.ports[i].target} :
                   v.t = "str" /\ isdigit(v.s) /\ IntRaises(v.s)

_normalize_for_stack(doc) ==
    [doc EXCEPT !.hasName = FALSE, !.name = <<>>, !.services =
        [k \in DOMAIN doc.services |->
           LET svc == doc.services[k] IN
           IF svc.null \/ ~svc.hasPorts THEN svc
           ELSE [svc EXCEPT !.ports = [i \in DOMAIN svc.ports |->
                                          NormalizePort(svc.ports[i])]]]]

(***************************************************************************)
(* Compose renderer                                                        *)
(***************************************************************************)
\* YAML text: blank, or the text of a document.
BlankText == [blank |-> TRUE, doc |-> Doc(FALSE, <<>>, <<>>)]
safe_dump(doc) == [blank |-> FALSE, doc |-> doc]
safe_load(text) == text.doc

\* What 'compose config' does: it fails, or it prints this text; stderr is
\* what it wrote to its error stream.
ComposeResults ==
    LET Sample ==
          {Doc(TRUE, <<"a">>, <<>>),
           Doc(TRUE, <<"a">>,
               [k \in {"web"} |->
                  Service(FALSE, TRUE,
                          <<DictPort(StrValue(<<"8", "0">>), IntValue(80))>>)]),
           Doc(FALSE, <<>>,
               [k \in {"web"} |->
                  Service(FALSE, TRUE,
                          <<DictPort(StrValue(<<"sup2">>), Absent)>>)])}
    IN {[failed |-> f, text |-> BlankText, stderr |-> e] :
           f \in BOOLEAN, e \in {"", "no such file"}}
          \cup {[failed |-> FALSE, text |-> safe_dump(d), stderr |-> ""] :
                   d \in Sample}

\* The text piped to 'stack deploy' and what happened on the way.
_render_compose_config(compose, rep) ==
    LET yaml_text == compose.text
    IN [out |->
          Then(Done(<<>>, <<>>, <<>>, <<>>, <<>>, <<"compose config">>, "", FALSE),
          Then(IF compose.failed
               THEN Signal(SUGAR_COMMAND_ERROR, "docker compose config failed",
                           rep)
               ELSE Nothing,
          Then(IF yaml_text.blank
               THEN Signal(SUGAR_INVALID_CONFIGURATION,
                           "Rendered compose configuration is empty."
                               \o "\n\nSTDERR:\n" \o compose.stderr,
                           rep)
               ELSE Nothing,
               IF yaml_text.blank THEN Raise("AttributeError")
               ELSE IF NormalizeRaises(safe_load(yaml_text))
               THEN Raise("ValueError")
               ELSE Nothing))),
        text |-> safe_dump(_normalize_for_stack(safe_load(yaml_text)))]

(***************************************************************************)
(* SugarSwarmStack                                                         *)
(***************************************************************************)
\* self._call_backend_app(stack_name, options_args=..., stdin_data=...)
\* with self.backend_args as set by the caller.
StackCall(backend_args, target, options_args, hasStdin, stdin) ==
    [backend_args |-> backend_args, target |-> target,
     options_args |-> options_args, hasStdin |-> hasStdin, stdin |-> stdin]

_call_stack_command(stack_name, options_args, backend_args, compose, rep) ==
    LET render == _render_compose_config(compose, rep)
    IN IF /\ Len(backend_args) >= 3
          /\ backend_args[1] = "stack"
          /\ backend_args[2] = "deploy"
          /\ \E i \in DOMAIN backend_args : backend_args[i] = "-c"
          /\ \E i \in DOMAIN backend_args : backend_args[i] = "-"
       THEN Then(render.out,
                 Invoke(StackCall(backend_args, stack_name, options_args,
                                  TRUE, render.text)))
       ELSE Invoke(StackCall(backend_args, stack_name, options_args,
                             FALSE, BlankText))

\* A deploy that pipes the compose text as it came.
SugarSwarmStack_cmd_deploy_raw(stack, options, compose, rep) ==
    LET render == _render_compose_config(compose, rep)
    IN Then(IF stack = <<>>
            THEN Signal(SUGAR_INVALID_PARAMETER, MSG_ERROR_STACK_NAME, rep)
            ELSE Nothing,
       Then(render.out,
            Invoke(StackCall(<<"stack", "deploy", "-c", "-">>, stack,
                             _get_list_args(options), TRUE, compose.text))))

SugarSwarmStack_cmd_deploy(stack, options, compose, rep) ==
    LET render == _render_compose_config(compose, rep)
    IN Then(IF stack = <<>>
            THEN Signal(SUGAR_INVALID_PARAMETER, MSG_ERROR_STACK_NAME, rep)
            ELSE Nothing,
       Then(render.out,
            Invoke(StackCall(<<"stack", "deploy", "-c", "-">>, stack,
                             _get_list_args(options), TRUE, render.text))))

SugarSwarmStack_cmd_ls(stack, quiet, options, compose, rep) ==
    Then(IF stack = <<>>
         THEN Signal(SUGAR_INVALID_PARAMETER, MSG_ERROR_STACK_NAME, rep)
         ELSE Nothing,
         _call_stack_command(stack, _get_list_args(options),
                             IF quiet THEN <<"stack", "ps", "--quiet">>
                             ELSE <<"stack", "ps">>,
                             compose, rep))

SugarSwarmStack_cmd_ps(stack, quiet, options, compose, rep) ==
    Then(IF stack = <<>>
         THEN Signal(SUGAR_INVALID_PARAMETER, MSG_ERROR_STACK_NAME, rep)
         ELSE Nothing,
         _call_stack_command(stack, _get_list_args(options),
                             IF quiet THEN <<"stack", "ps", "--quiet">>
                             ELSE <<"stack", "ps">>,
                             compose, rep))

SugarSwarmStack_cmd_rm(stack, options, compose, rep) ==
    _call_stack_command(stack, _get_list_args(options), <<"stack", "rm">>,
                        compose, rep)

(***************************************************************************)
(* Swarm: the commands a process can be started with                       *)
(***************************************************************************)
MaxPairs == 2
MaxTargets == 3

\* The arguments of one handler call: names is the comma-separated string
\* (replicas, service or nodes), results what the backend will answer to
\* the successive rollback calls, compose what 'compose config' will do.
Command(op, names, stack, options, detach, quiet, results, compose) ==
    [op |-> op, names |-> names, stack |-> stack, options |-> options,
     detach |-> detach, quiet |-> quiet, results |-> results,
     compose |-> compose]

SeqsUpTo(S, n) == UNION {[1..k -> S] : k \in 0..n}

\* sep.join(frags)
RECURSIVE Join(_, _)
Join(frags, sep) ==
    IF frags = <<>> THEN <<>>
    ELSE IF Len(frags) = 1 THEN frags[1]
    ELSE frags[1] \o <<sep>> \o Join(Tail(frags), sep)

\* Replicas strings: up to MaxPairs fragments among 'a=3', 's=1', 'a',
\* 'a=3=1', '=3' and '', and the blank string.
ReplicasStrings ==
    {Join(l, ",") :
        l \in SeqsUpTo({<<"a", "=", "3">>, <<"s", "=", "1">>, <<"a">>,
                        <<"a", "=", "3", "=", "1">>, <<"=", "3">>, <<>>},
                       MaxPairs)}
        \cup {<<" ">>}

\* Service strings for rollback: '', 'a', 'a,s', 'a,s,a', ... up to
\* MaxTargets names, and 'a,'.
RollbackStrings ==
    {Join([i \in 1..k |-> IF i % 2 = 1 THEN <<"a">> ELSE <<"s">>], ",") :
        k \in 0..MaxTargets}
        \cup {<<"a", ",">>}

\* Nodes strings: every string of names and commas, and two with a blank.
NodeStrings ==
    StringsOver({"a", "s", ","}, MaxLen) \cup {<<" ">>, <<",", " ">>}

CommandRequests ==
    LET none == [failed |-> FALSE, text |-> BlankText, stderr |-> ""]
        stacks == StackNames \cup {<<" ">>}
    IN {Command("SugarSwarmService._cmd_scale", r, st, o, d, FALSE, <<>>, none) :
           r \in ReplicasStrings, st \in stacks, o \in OptionStrings,
           d \in BOOLEAN}
       \cup UNION {
           {Command("SugarSwarmService._cmd_rollback", s, st, o, d, q, rs, none) :
               st \in StackNames, o \in OptionStrings, d \in BOOLEAN,
               q \in BOOLEAN,
               rs \in [1..Len(Split(s, ",")) -> BackendResults]} :
           s \in RollbackStrings}
       \cup {Command(op, n, <<>>, o, FALSE, FALSE, <<>>, none) :
                op \in NodeOps, n \in NodeStrings, o \in OptionStrings}
       \cup {Command("SugarSwarmStack._cmd_deploy", <<>>, st, o, FALSE, FALSE, <<>>, c) :
                st \in stacks, o \in OptionStrings, c \in ComposeResults}
       \cup {Command(op, <<>>, st, o, FALSE, q, <<>>, none) :
                op \in {"SugarSwarmStack._cmd_ls", "SugarSwarmStack._cmd_ps"},
                st \in stacks, o \in OptionStrings, q \in BOOLEAN}
       \cup {Command("SugarSwarmStack._cmd_rm", <<>>, st, o, FALSE, FALSE, <<>>, none) :
                st \in stacks, o \in OptionStrings}
       \cup {Command(op, <<>>, <<>>, o, FALSE, FALSE, <<>>, none) :
                op \in SwarmOps, o \in OptionStrings}

PerformRequests ==
    {[op |-> "_perform_service_rollback", service |-> s, options_args |-> oa,
      result |-> r] :
        s \in {<<>>, <<"a">>, <<"s", "_", "a">>},
        oa \in {<<>>, <<DETACH>>, <<<<"-", "f">>, QUIET>>},
        r \in BackendResults}

NormalizeRequests == {[op |-> "_normalize_for_stack", doc |-> d] : d \in Docs}

InspectRequests ==
    {[op |-> "SugarSwarmService._cmd_inspect", stack |-> st, services |-> sv,
      all |-> al, options |-> o] :
        st \in StackNames \cup {<<" ">>, <<" ", "s">>},
        sv \in {<<>>, <<"a">>, <<"a", ",", "s">>}, al \in BOOLEAN,
        o \in OptionStrings}

\* Calls of the handlers of CommandHandler.  Options '' and '-f'; services
\* '', 'a' and 's_a,a'; image 'img', replicas '3', since '1h', tail '5';
\* env_add '', 'A=1, B=2' and ' ,'; label_add '' and 'l=1'.
HandlerRequests ==
    LET options == {<<>>, <<"-", "f">>}
        services == {<<>>, <<"a">>, <<"s", "_", "a", ",", "a">>}
        update == [options : options, detach : BOOLEAN, quiet : BOOLEAN,
                   force : BOOLEAN, rollback : BOOLEAN,
                   image : {<<>>, <<"i", "m", "g">>},
                   replicas : {<<>>, <<"3">>},
                   env_add : {<<>>, <<"A", "=", "1", ",", " ", "B", "=", "2">>,
                              <<" ", ",">>},
                   label_add : {<<>>, <<"l", "=", "1">>}]
        flags == {[details |-> a, follow |-> b, no_resolve |-> b,
                   no_task_ids |-> a, no_trunc |-> c, raw |-> a,
                   timestamps |-> c] :
                     a \in BOOLEAN, b \in BOOLEAN, c \in BOOLEAN}
    IN {[op |-> "SugarSwarm._cmd_update"] @@ u : u \in update}
       \cup {[op |-> "SugarSwarmService._cmd_update", services |-> s,
              all |-> al] @@ u :
                s \in services, al \in BOOLEAN, u \in update}
       \cup {[op |-> "SugarSwarmService._cmd_logs", services |-> s,
              all |-> al, stack |-> st, since |-> si, tail |-> t,
              options |-> o] @@ f :
                s \in services, al \in BOOLEAN, st \in {<<>>, <<"s">>},
                si \in {<<>>, <<"1", "h">>}, t \in {<<>>, <<"5">>},
                o \in options, f \in flags}
       \cup {[op |-> op, services |-> s, all |-> al, options |-> o] :
                op \in {"SugarSwarmService._cmd_ps",
                        "SugarSwarmService._cmd_rm"},
                s \in services, al \in BOOLEAN, o \in OptionStrings}
       \cup {[op |-> op, options |-> o] :
                op \in {"SugarSwarmService._cmd_create",
                        "SugarSwarmService._cmd_ls",
                        "SugarSwarmNode._cmd_ls"},
                o \in OptionStrings}
       \cup {[op |-> "_get_services_from_stack", stack |-> <<"s">>,
              result |-> r] :
                r \in {[raised |-> TRUE, e |-> "RuntimeError('boom')",
                        output |-> <<>>]}
                      \cup {[raised |-> FALSE, e |-> "", output |-> out] :
                               out \in {<<>>, <<"\n">>,
                                        <<"s", "_", "a", "\n">>,
                                        <<"s", "_", "a", "\n", "s", "_", "b", "\n">>,
                                        <<" ", "s", "_", "a", "\n", "\n", "s", "_", "b", "\n">>}}}

\* One call of a handler of CommandHandler, or of _get_services_from_stack.
Handlers ==
    /\ pc = "called"
    /\ req.op \in {"SugarSwarm._cmd_update", "SugarSwarmService._cmd_create",
                   "SugarSwarmService._cmd_logs", "SugarSwarmService._cmd_ls",
                   "SugarSwarmService._cmd_ps", "SugarSwarmService._cmd_rm",
                   "SugarSwarmService._cmd_update", "SugarSwarmNode._cmd_ls",
                   "_get_services_from_stack"}
    /\ res' = IF req.op = "_get_services_from_stack"
              THEN _get_services_from_stack(req.stack, req.result, reporter)
              ELSE CommandHandler(req, reporter)
    /\ pc' = "done"
    /\ UNCHANGED <<reporter, req, self_backend_args>>
    /\ UNCHANGED <<dummyVars, logsVars>>

Swarm ==
    /\ pc = "called"
    /\ req.op \in SwarmOps
    /\ res' = SwarmCommand(req.op, req.options, reporter)
    /\ pc' = "done"
    /\ UNCHANGED <<reporter, req, self_backend_args>>
    /\ UNCHANGED <<dummyVars, logsVars>>

ServiceInspect ==
    /\ pc = "called"
    /\ req.op = "SugarSwarmService._cmd_inspect"
    /\ res' = SugarSwarmService_cmd_inspect(req.stack, req.services, req.all,
                                            req.options, reporter)
    /\ pc' = "done"
    /\ UNCHANGED <<reporter, req, self_backend_args>>
    /\ UNCHANGED <<dummyVars, logsVars>>

ServiceScale ==
    /\ pc = "called"
    /\ req.op = "SugarSwarmService._cmd_scale"
    /\ res' = SugarSwarmService_cmd_scale(req.names, req.stack, req.detach,
                                          req.options, reporter)
    /\ pc' = "done"
    /\ UNCHANGED <<reporter, req, self_backend_args>>
    /\ UNCHANGED <<dummyVars, logsVars>>

ServiceRollback ==
    /\ pc = "called"
    /\ req.op = "SugarSwarmService._cmd_rollback"
    /\ res' = SugarSwarmService_cmd_rollback(req.names, req.stack, req.detach,
                                             req.quiet, req.options,
                                             req.results, reporter)
    /\ pc' = "done"
    /\ UNCHANGED <<reporter, req, self_backend_args>>
    /\ UNCHANGED <<dummyVars, logsVars>>

PerformServiceRollback ==
    /\ pc = "called"
    /\ req.op = "_perform_service_rollback"
    /\ res' = _perform_service_rollback(req.service, req.options_args,
                                        req.result)
    /\ pc' = "done"
    /\ UNCHANGED <<reporter, req, self_backend_args>>
    /\ UNCHANGED <<dummyVars, logsVars>>

Node ==
    /\ pc = "called"
    /\ req.op \in NodeOps
    /\ res' = NodeCommand(req.op, req.names, req.options, reporter)
    /\ pc' = "done"
    /\ UNCHANGED <<reporter, req, self_backend_args>>
    /\ UNCHANGED <<dummyVars, logsVars>>

StackDeploy ==
    /\ pc = "called"
    /\ req.op = "SugarSwarmStack._cmd_deploy"
    /\ res' = SugarSwarmStack_cmd_deploy(req.stack, req.options, req.compose,
                                         reporter)
    /\ pc' = "done"
    /\ self_backend_args' = IF res'.backend = <<>> THEN self_backend_args
                            ELSE res'.backend[1].backend_args
    /\ UNCHANGED <<reporter, req>>
    /\ UNCHANGED <<dummyVars, logsVars>>

StackLs ==
    /\ pc = "called"
    /\ req.op = "SugarSwarmStack._cmd_ls"
    /\ res' = SugarSwarmStack_cmd_ls(req.stack, req.quiet, req.options,
                                     req.compose, reporter)
    /\ pc' = "done"
    /\ self_backend_args' = IF res'.backend = <<>> THEN self_backend_args
                            ELSE res'.backend[1].backend_args
    /\ UNCHANGED <<reporter, req>>
    /\ UNCHANGED <<dummyVars, logsVars>>

StackPs ==
    /\ pc = "called"
    /\ req.op = "SugarSwarmStack._cmd_ps"
    /\ res' = SugarSwarmStack_cmd_ps(req.stack, req.quiet, req.options,
                                     req.compose, reporter)
    /\ pc' = "done"
    /\ self_backend_args' = IF res'.backend = <<>> THEN self_backend_args
                            ELSE res'.backend[1].backend_args
    /\ UNCHANGED <<reporter, req>>
    /\ UNCHANGED <<dummyVars, logsVars>>

StackRm ==
    /\ pc = "called"
    /\ req.op = "SugarSwarmStack._cmd_rm"
    /\ res' = SugarSwarmStack_cmd_rm(req.stack, req.options, req.compose,
                                     reporter)
    /\ pc' = "done"
    /\ self_backend_args' = IF res'.backend = <<>> THEN self_backend_args
                            ELSE res'.backend[1].backend_args
    /\ UNCHANGED <<reporter, req>>
    /\ UNCHANGED <<dummyVars, logsVars>>

NormalizeForStack ==
    /\ pc = "called"
    /\ req.op = "_normalize_for_stack"
    /\ res' = [ret |-> _normalize_for_stack(req.doc),
               raised |-> IF NormalizeRaises(req.doc) THEN "ValueError"
                          ELSE ""]
    /\ pc' = "done"
    /\ UNCHANGED <<reporter, req, self_backend_args>>
    /\ UNCHANGED <<dummyVars, logsVars>>

InitSwarm ==
    /\ reporter \in {"exit", "mock"}
    /\ pc = "called"
    /\ \/ req \in GetServicesNamesRequests \cup CallCommandRequests
       \/ req \in CommandRequests
       \/ req \in PerformRequests
       \/ req \in NormalizeRequests
       \/ req \in InspectRequests
       \/ req \in HandlerRequests
    /\ res = NoOutcome
    /\ self_backend_args =
          IF req.op \in {"SugarSwarmStack._cmd_deploy",
                         "SugarSwarmStack._cmd_ls", "SugarSwarmStack._cmd_ps",
                         "SugarSwarmStack._cmd_rm"}
          THEN <<"stack">>
          ELSE IF req.op \in NodeOps \cup {"SugarSwarmNode._cmd_ls"}
          THEN <<"node">>
          ELSE IF req.op \in SwarmOps
                                \cup {"SugarSwarm._cmd_update",
                                      "_get_services_names", "_call_command",
                                      "_normalize_for_stack"}
          THEN <<"swarm">>
          ELSE <<"service">>

IdleSwarm ==
    /\ reporter = "exit"
    /\ pc = "idle"
    /\ req = NoRequest
    /\ res = NoOutcome
    /\ self_backend_args = <<>>

IdleDummy ==
    /\ file = MissingFile
    /\ inst = "none"
    /\ state = _empty_state
    /\ last = NoCall
    /\ ext = "none"

NextSwarm ==
    \/ GetServicesNames
    \/ CallCommand
    \/ ServiceScale
    \/ ServiceRollback
    \/ PerformServiceRollback
    \/ Node
    \/ StackDeploy
    \/ StackLs
    \/ StackPs
    \/ StackRm
    \/ NormalizeForStack
    \/ Swarm
    \/ ServiceInspect
    \/ Handlers

(***************************************************************************)
(* AppleContainerExtension                                                 *)
(***************************************************************************)
\* The command methods.  exec(service, command) passes [service] and drops
\* its command; version() passes no services.  Every use of services is a
\* truth test, so None is modelled as the empty list.  'config' is a method
\* of the class that no object can call: see ExtensionCommand.
Commands ==
    {"build", "config", "create", "down", "exec", "images", "kill", "logs",
     "pause", "ps", "pull", "push", "rm", "run", "start", "stop", "top",
     "restart", "unpause", "up", "version"}

\* What subprocess.run(args, check=False) does: the child ends with a
\* return code, or the call raises.
ProcessOutcomes ==
    {[kind |-> "exit", code |-> c] : c \in {0, 1, 3}}
        \cup {[kind |-> k, code |-> 0] :
                 k \in {"FileNotFoundError", "PermissionError"}}

\* What one command did: the value returned, the exception that left the
\* method, the runtime's state and whether it was saved, the calls made on
\* the runtime, the argument vectors given to subprocess.run, the lines
\* written to stderr and the containers listed on stdout.
Ran(ret, raised, st, save, runtime, processes, stderr, listed) ==
    [ret |-> ret, raised |-> raised, state |-> st, save |-> save,
     runtime |-> runtime, processes |-> processes, stderr |-> stderr,
     listed |-> listed]

\* for service in services: self.runtime.<method>(service, ...), each call
\* with its own datetime.now(), on the state file f.  A call whose save
\* fails raises RuntimeError, which ends the loop: _dummy_execute catches
\* it, prints the error and returns 1.
RECURSIVE ForEach(_, _, _, _, _)
ForEach(method, services, f, st, now) ==
    IF services = <<>> THEN Ran(0, "", st, FALSE, {}, <<>>, <<>>, {})
    ELSE LET service == Head(services)
             r == IF method = "create"
                  THEN create(st, service,
                              IF service = "c1" THEN "image-c1"
                              ELSE "image-c2",
                              "{}", Head(now))
                  ELSE IF method = "start" THEN start(st, service, Head(now))
                  ELSE IF method = "stop" THEN stop(st, service, Head(now))
                  ELSE remove(st, service)
             saved == IF r.save THEN _save_state(f, r.state)
                      ELSE [raised |-> "", file |-> f]
             rest == ForEach(method, Tail(services), f, r.state, Tail(now))
         IN IF saved.raised # ""
            THEN Ran(1, "", r.state, FALSE,
                     {[method |-> method, name |-> service,
                       ret |-> saved.raised]},
                     <<>>, <<"Error executing {command}: {e}">>, {})
            ELSE Ran(rest.ret, "", rest.state, r.save \/ rest.save,
                     {[method |-> method, name |-> service, ret |-> r.ret]}
                         \cup rest.runtime,
                     <<>>, rest.stderr, {})

_real_execute(command, services, st, outcome) ==
    LET args == <<"container", command>> \o services
    IN IF outcome.kind = "exit"
       THEN Ran(outcome.code, "", st, FALSE, {}, <<args>>, <<>>, {})
       ELSE IF outcome.kind = "FileNotFoundError"
       THEN Ran(1, "", st, FALSE, {}, <<args>>,
                <<"Error: 'container' command not found. Please ensure Apple Container is installed.">>,
                {})
       ELSE Ran(1, "", st, FALSE, {}, <<args>>,
                <<"Error executing {command}: {e}">>, {})

\* A dummy mode whose down removes only the services it is given.
_dummy_execute_selective(command, services, f, st, now) ==
    IF command \in {"create", "start", "stop"}
    THEN ForEach(command, services, f, st, now)
    ELSE IF command = "ps"
    THEN Ran(0, "", st, FALSE, {}, <<>>, <<>>,
             DOMAIN get_containers(st))
    ELSE IF command = "down"
    THEN LET Given(k) == \E i \in DOMAIN services : services[i] = k
             names == SelectSeq(st.keys, Given)
         IN ForEach("remove", names, f, st, [i \in DOMAIN names |-> NoTime])
    ELSE Ran(0, "", st, FALSE, {}, <<>>, <<>>, {})

\* try: the handler of the command; return 0; except Exception: print the
\* error, return 1.  _handle_down removes the names of
\* list(self.runtime.get_containers().keys()) in that order.  The records
\* are those the runtime makes, so _handle_ps finds the keys it prints.
_dummy_execute(command, services, f, st, now) ==
    IF command \in {"create", "start", "stop"}
    THEN ForEach(command, services, f, st, now)
    ELSE IF command = "ps"
    THEN Ran(0, "", st, FALSE, {}, <<>>, <<>>,
             DOMAIN get_containers(st))
    ELSE IF command = "down"
    THEN ForEach("remove", st.keys, f, st,
                 [i \in DOMAIN st.keys |-> NoTime])
    ELSE Ran(0, "", st, FALSE, {}, <<>>, <<>>, {})

_execute_command(use_dummy, command, services, f, st, now, outcome) ==
    IF use_dummy THEN _dummy_execute(command, services, f, st, now)
    ELSE _real_execute(command, services, st, outcome)

\* restart: stop, and start unless stop failed.  now and outcomes are
\* those of the stop followed by those of the start.
restart(use_dummy, services, f, st, now, outcomes) ==
    LET result == _execute_command(use_dummy, "stop", services, f, st,
                                   now[1], outcomes[1])
    IN IF result.ret # 0 \/ result.raised # "" THEN result
       ELSE LET second == _execute_command(use_dummy, "start", services, f,
                                           result.state, now[2], outcomes[2])
            IN Ran(second.ret, second.raised, second.state,
                   result.save \/ second.save,
                   result.runtime \cup second.runtime,
                   result.processes \o second.processes,
                   result.stderr \o second.stderr, {})

\* AppleContainerExtension(config, use_dummy, state_file): in dummy mode
\* the runtime is made from the state file.
ExtensionInit ==
    \E use_dummy \in BOOLEAN :
        /\ ext = "none"
        /\ IF use_dummy
           THEN LET l == _load_state(file) IN
                  /\ state' = l.state
                  /\ inst' = IF l.raised = "" THEN "ready" ELSE "crashed"
                  /\ ext' = IF l.raised = "" THEN "dummy" ELSE "none"
                  /\ last' = [op |-> "__init__", name |-> "", image |-> "",
                              ret |-> IF l.raised = "" THEN "None"
                                      ELSE l.raised,
                              wrote |-> FALSE]
           ELSE /\ ext' = "real"
                /\ UNCHANGED <<state, inst, last>>
        /\ UNCHANGED file
        /\ UNCHANGED <<swarmVars, logsVars>>

\* One command of the extension.  req keeps the call and, in real mode,
\* what the processes did; res keeps what the call did.  now holds the
\* clock readings and outcomes what the processes do, for the first
\* _execute_command and, in a restart, for the second.  __init__ assigns
\* self.config = config, the configuration dict, which hides the method
\* config(): calling it raises TypeError ('dict' object is not callable)
\* before _execute_command is reached.  Of the commands _dummy_execute has
\* no branch for, dummy mode is followed with rm, exec and version.
ExtensionCommand ==
    \E command \in Commands, services \in {<<>>, <<"c1">>, <<"c2", "c1">>} :
      \E now \in IF ext = "dummy" /\ command = "restart"
                 THEN [1..2 -> [1..Len(services) -> Times]]
                 ELSE IF ext = "dummy"
                         /\ command \in {"create", "start", "stop"}
                 THEN {<<n>> : n \in [1..Len(services) -> Times]}
                 ELSE {<<<<>>>>},
         outcomes \in IF ext = "real" /\ command = "restart"
                      THEN [1..2 -> ProcessOutcomes]
                      ELSE IF ext = "real"
                      THEN {<<o>> : o \in ProcessOutcomes}
                      ELSE {<<[kind |-> "exit", code |-> 0]>>} :
        /\ ext # "none"
        /\ ext = "dummy" =>
              command \in {"create", "start", "stop", "ps", "down", "restart",
                           "config", "rm", "exec", "version"}
        /\ command = "version" => services = <<>>
        /\ command = "exec" => Len(services) = 1
        /\ LET r == IF command = "config"
                    THEN Ran("None", "TypeError", state, FALSE, {}, <<>>,
                             <<>>, {})
                    ELSE IF command = "restart"
                    THEN restart(ext = "dummy", services, file, state, now,
                                 outcomes)
                    ELSE _execute_command(ext = "dummy", command, services,
                                          file, state, now[1], outcomes[1])
           IN /\ state' = r.state
              /\ file' = IF r.save THEN _save_state(file, r.state).file
                         ELSE file
              /\ req' = [op |-> "AppleContainerExtension",
                         command |-> command, services |-> services,
                         outcomes |-> IF ext = "dummy" THEN <<>>
                                      ELSE outcomes]
              /\ res' = [ret |-> r.ret, raised |-> r.raised,
                         runtime |-> r.runtime, processes |-> r.processes,
                         stderr |-> r.stderr, listed |-> r.listed]
        /\ UNCHANGED <<inst, last, ext, reporter, pc, self_backend_args>>
        /\ UNCHANGED logsVars

NextApple ==
    \/ ExtensionInit
    \/ ExtensionCommand

(***************************************************************************)
(* LogsScreen                                                              *)
(***************************************************************************)
\* The attributes after __init__ and the widgets as compose() yields them.
InitLogs ==
    /\ _screen_stack = <<>>
    /\ mounted = FALSE
    /\ shown = FALSE
    /\ following = FALSE
    /\ _interval = "None"
    /\ timers = 0
    /\ log_level = "None"
    /\ selected_container_name = "None"
    /\ widgets = [label |-> "Follow", variant |-> "primary",
                  status |-> "Auto-refresh: Off",
                  classes |-> "auto-refresh-off",
                  filters |-> [b \in {"filter-all", "filter-info",
                                      "filter-warn", "filter-error",
                                      "filter-debug"} |->
                                 CASE b = "filter-all" -> "primary"
                                   [] b = "filter-warn" -> "warning"
                                   [] b = "filter-error" -> "error"
                                   [] b = "filter-debug" -> "success"
                                   [] OTHER -> "default"]]
    /\ display = [text |-> "", lines |-> <<>>]
    /\ event = ""

\* refresh_logs with self.log_level = level.  selected is what app.data
\* holds under 'selected_container' (nothing, a str, a tuple whose first
\* item is taken, or another object); logs is what the docker client
\* answers: it raises, or it returns the last lines.  A line is written as
\* the one level word it holds, so 'level in line' is an equality.
refresh_logs(level) ==
    \E selected \in {[type |-> "NoneType", name |-> ""],
                     [type |-> "str", name |-> "web"],
                     [type |-> "str", name |-> ""],
                     [type |-> "tuple", name |-> "web"],
                     [type |-> "int", name |-> ""]},
       logs \in {[raised |-> TRUE, lines |-> <<>>],
                 [raised |-> FALSE, lines |-> <<>>],
                 [raised |-> FALSE, lines |-> <<"INFO">>],
                 [raised |-> FALSE, lines |-> <<"INFO", "ERROR">>]} :
        LET container_name ==
                IF selected.type \in {"str", "tuple"} THEN selected.name
                ELSE ""
            IsLevel(line) == line = level
            kept == IF level # "None" THEN SelectSeq(logs.lines, IsLevel)
                    ELSE logs.lines
        IN IF container_name = ""
           THEN /\ display' = [text |-> "No container selected.",
                               lines |-> <<>>]
                /\ UNCHANGED selected_container_name
           ELSE /\ selected_container_name' = container_name
                /\ display' =
                     IF logs.raised
                     THEN [text |-> "Error reading logs:\n{e}",
                           lines |-> <<>>]
                     ELSE IF kept = <<>>
                     THEN [text |-> "No logs found.", lines |-> <<>>]
                     ELSE [text |-> "", lines |-> kept]

\* A toggle that forgets to stop the timer it drops.
action_toggle_follow_leaky ==
    /\ following' = ~following
    /\ widgets' = [widgets EXCEPT
                     !.label = IF following' THEN "Following" ELSE "Follow",
                     !.variant = IF following' THEN "success" ELSE "primary",
                     !.status = IF following' THEN "Auto-refresh: On"
                                ELSE "Auto-refresh: Off",
                     !.classes = IF following' THEN "auto-refresh-on"
                                 ELSE "auto-refresh-off"]
    /\ IF following' /\ _interval = "None"
       THEN _interval' = "Timer" /\ timers' = timers + 1
       ELSE IF ~following' /\ _interval # "None"
       THEN _interval' = "None" /\ timers' = timers
       ELSE UNCHANGED <<_interval, timers>>
    /\ UNCHANGED <<_screen_stack, mounted, shown, log_level,
                   selected_container_name, display>>

\* set_interval(2, self.refresh_logs) starts a timer of the screen and
\* returns it; stop() ends that timer.
action_toggle_follow ==
    /\ following' = ~following
    /\ widgets' = [widgets EXCEPT
                     !.label = IF following' THEN "Following" ELSE "Follow",
                     !.variant = IF following' THEN "success" ELSE "primary",
                     !.status = IF following' THEN "Auto-refresh: On"
                                ELSE "Auto-refresh: Off",
                     !.classes = IF following' THEN "auto-refresh-on"
                                 ELSE "auto-refresh-off"]
    /\ IF following' /\ _interval = "None"
       THEN _interval' = "Timer" /\ timers' = timers + 1
       ELSE IF ~following' /\ _interval # "None"
       THEN _interval' = "None" /\ timers' = timers - 1
       ELSE UNCHANGED <<_interval, timers>>
    /\ UNCHANGED <<_screen_stack, mounted, shown, log_level,
                   selected_container_name, display>>

action_clear_logs ==
    /\ display' = [text |-> "", lines |-> <<>>]
    /\ UNCHANGED <<_screen_stack, mounted, shown, following, _interval,
                   timers, log_level, selected_container_name, widgets>>

\* level is "None" for apply_filter().
apply_filter(level) ==
    /\ log_level' = level
    /\ widgets' = [widgets EXCEPT !.filters =
                     [b \in DOMAIN @ |->
                        IF b = (CASE level = "INFO" -> "filter-info"
                                  [] level = "WARN" -> "filter-warn"
                                  [] level = "ERROR" -> "filter-error"
                                  [] level = "DEBUG" -> "filter-debug"
                                  [] OTHER -> "filter-all")
                        THEN "primary" ELSE "default"]]
    /\ refresh_logs(level)
    /\ UNCHANGED <<_screen_stack, mounted, shown, following, _interval,
                   timers>>

\* app.pop_screen(): the screen on top leaves the stack and the one below
\* it is shown.  A screen of the SCREENS dict stays installed: the instance,
\* its attributes and its timers live on.  The other outcome is that of a
\* screen the application removes once it is on the stack no more: its
\* timers end with it and the next push makes a new one.
pop_screen ==
    LET rest == SubSeq(_screen_stack, 1, Len(_screen_stack) - 1)
        top == _screen_stack[Len(_screen_stack)]
    IN /\ _screen_stack' = rest
       /\ shown' = (rest # <<>> /\ rest[Len(rest)] = "logs")
       /\ \E installed \in BOOLEAN :
            IF \/ installed
               \/ top # "logs"
               \/ \E i \in DOMAIN rest : rest[i] = "logs"
            THEN UNCHANGED <<mounted, following, _interval, timers,
                             log_level, selected_container_name, widgets,
                             display>>
            ELSE /\ mounted' = FALSE
                 /\ following' = FALSE
                 /\ _interval' = "None"
                 /\ timers' = 0
                 /\ log_level' = "None"
                 /\ selected_container_name' = "None"
                 /\ widgets' = [label |-> "Follow", variant |-> "primary",
                                status |-> "Auto-refresh: Off",
                                classes |-> "auto-refresh-off",
                                filters |->
                                    [b \in DOMAIN widgets.filters |->
                                       CASE b = "filter-all" -> "primary"
                                         [] b = "filter-warn" -> "warning"
                                         [] b = "filter-error" -> "error"
                                         [] b = "filter-debug" -> "success"
                                         [] OTHER -> "default"]]
                 /\ display' = [text |-> "", lines |-> <<>>]

\* The depth of the screen stack the model follows.
MaxStack == 3

\* app.push_screen(name): the keys p, s, l and d of the application, live on
\* every screen, and action_logs.  The first push of 'logs' makes the
\* instance: LogsScreen.__init__ calls docker.from_env(), and when that
\* raises no screen is pushed (action_logs notifies "Logs screen not
\* available").  A push puts the screen on top, over the logs screen as
\* well, whose timers run on; the instance of an earlier push is pushed as
\* it is, mounted or not.  The Mount event of a new instance is handled
\* later, by on_mount, before any key or button of the screen; a push may
\* come before it: the Button.Pressed of 'View Logs' (details.py 248-249)
\* or 'Logs' (services.py 150-152) pushes 'logs' and goes on to
\* SugarTUI.on_button_pressed, whose action_logs pushes it again.
push_screen ==
    \E name \in {"profiles", "services", "logs", "details"},
       from_env \in {"client", "raised"} :
        /\ Len(_screen_stack) < MaxStack
        /\ event' = "push_screen"
        /\ IF /\ name = "logs"
              /\ ~mounted
              /\ \A i \in DOMAIN _screen_stack : _screen_stack[i] # "logs"
              /\ from_env = "raised"
           THEN UNCHANGED <<_screen_stack, shown>>
           ELSE /\ _screen_stack' = Append(_screen_stack, name)
                /\ shown' = (name = "logs")
        /\ UNCHANGED <<mounted, following, _interval, timers, log_level,
                       selected_container_name, widgets, display>>
        /\ UNCHANGED <<dummyVars, swarmVars>>

\* LogsScreen.on_mount, the handler of the Mount event of a new instance,
\* which is on the stack, on top or under the screens pushed since.
on_mount ==
    /\ \E i \in DOMAIN _screen_stack : _screen_stack[i] = "logs"
    /\ ~mounted
    /\ mounted' = TRUE
    /\ event' = "on_mount"
    /\ refresh_logs(log_level)
    /\ UNCHANGED <<_screen_stack, shown, following, _interval, timers,
                   log_level, widgets>>
    /\ UNCHANGED <<dummyVars, swarmVars>>

\* The key escape with another screen than the logs screen on top:
\* SugarTUI.action_back, or the binding 'app.pop_screen' of that screen.
\* With the main screen alone pop_screen raises and action_back passes.
action_back ==
    /\ ~shown
    /\ event' = "back"
    /\ IF _screen_stack = <<>>
       THEN UNCHANGED <<_screen_stack, mounted, shown, following,
                        _interval, timers, log_level,
                        selected_container_name, widgets, display>>
       ELSE pop_screen
    /\ UNCHANGED <<dummyVars, swarmVars>>

on_button_pressed ==
    \E id \in {"back-btn", "follow-btn", "clear-btn", "filter-all",
               "filter-info", "filter-warn", "filter-error",
               "filter-debug"} :
        /\ shown
        /\ mounted
        /\ event' = id
        /\ CASE id = "back-btn" ->
                    pop_screen
             [] id = "follow-btn" -> action_toggle_follow
             [] id = "clear-btn" -> action_clear_logs
             [] id = "filter-all" -> apply_filter("None")
             [] id = "filter-info" -> apply_filter("INFO")
             [] id = "filter-warn" -> apply_filter("WARN")
             [] id = "filter-error" -> apply_filter("ERROR")
             [] OTHER -> apply_filter("DEBUG")
        /\ UNCHANGED <<dummyVars, swarmVars>>

\* A key of BINDINGS.  'r' is bound to the action 'refresh', which
\* LogsScreen does not define: refresh_logs is not called.
BINDINGS ==
    \E key \in {"escape", "f", "c", "r"} :
        /\ shown
        /\ mounted
        /\ event' = key
        /\ CASE key = "escape" -> pop_screen
             [] key = "f" -> action_toggle_follow
             [] key = "c" -> action_clear_logs
             [] OTHER -> UNCHANGED <<_screen_stack, mounted, shown, following,
                                     _interval, timers, log_level,
                                     selected_container_name, widgets,
                                     display>>
        /\ UNCHANGED <<dummyVars, swarmVars>>

\* A running interval timer calls its callback, self.refresh_logs.
Timer ==
    /\ timers > 0
    /\ event' = "Timer"
    /\ refresh_logs(log_level)
    /\ UNCHANGED <<_screen_stack, mounted, shown, following, _interval,
                   timers, log_level, widgets>>
    /\ UNCHANGED <<dummyVars, swarmVars>>

NextLogs ==
    \/ push_screen
    \/ on_mount
    \/ action_back
    \/ on_button_pressed
    \/ BINDINGS
    \/ Timer

\* The dummy runtime
Init == InitDummy /\ IdleSwarm /\ InitLogs
Spec == Init /\ [][NextDummy]_vars

\* The swarm commands, one command per process
InitS == InitSwarm /\ IdleDummy /\ InitLogs
SpecSwarm == InitS /\ [][NextSwarm]_vars

\* The extension: one object per process, in dummy or in real mode
SpecApple == Init /\ [][NextApple]_vars

\* The log viewer screen
InitL == InitLogs /\ IdleDummy /\ IdleSwarm
SpecLogs == InitL /\ [][NextLogs]_vars

(***************************************************************************)
(* Properties of the dummy runtime                                         *)
(***************************************************************************)
Present(st, n) == n \in DOMAIN st.containers

\* The records of every container other than n are the same in st and st2.
OthersSame(st, st2, n) ==
    /\ DOMAIN st.containers \ {n} = DOMAIN st2.containers \ {n}
    /\ \A m \in DOMAIN st.containers \ {n} :
          st2.containers[m] = st.containers[m]

\* C1: create(name, image) returns True exactly when name is absent and
\* then adds a record with status 'created' and the given image, leaving
\* the other records alone; when name is present it returns False and the
\* whole map and the state file stay as they were.
C1_Create ==
    last'.op = "create" =>
        LET n == last'.name IN
        /\ (last'.ret = "True") <=> ~Present(state, n)
        /\ last'.ret \in {"True", "False"}
        /\ ~Present(state, n) =>
              /\ Present(state', n)
              /\ state'.containers[n].status = "created"
              /\ state'.containers[n].image = last'.image
              /\ OthersSame(state, state', n)
        /\ Present(state, n) =>
              /\ state' = state
              /\ file' = file
              /\ ~last'.wrote
C1_CreateContract == [][C1_Create]_vars

\* C1, with the save: create(name, image) on an absent name adds a record
\* with status 'created' and the given image, leaving the other records
\* alone, and returns True when the state file is written; when the file
\* cannot be written it raises RuntimeError, the record stays in memory
\* and the file is as it was.  It returns True in no other case.  When
\* name is present it returns False and the whole map and the state file
\* stay as they were.
C1_CreateSaved ==
    last'.op = "create" =>
        LET n == last'.name IN
        /\ last'.ret \in {"True", "False", "RuntimeError"}
        /\ last'.ret = "True" => (~Present(state, n) /\ last'.wrote)
        /\ ~Present(state, n) =>
              /\ Present(state', n)
              /\ state'.containers[n].status = "created"
              /\ state'.containers[n].image = last'.image
              /\ OthersSame(state, state', n)
              /\ IF file.kind = "nodir"
                 THEN last'.ret = "RuntimeError" /\ file' = file
                 ELSE last'.ret = "True" /\ file' = JsonFile(state')
        /\ Present(state, n) =>
              /\ last'.ret = "False"
              /\ state' = state
              /\ file' = file
              /\ ~last'.wrote
C1_CreateContractWhenSaved == [][C1_CreateSaved]_vars

\* A create could not save: it raised with the record made in memory, next
\* to a container that had already moved on.
C1_Witness ==
    /\ last.op = "create"
    /\ last.ret = "RuntimeError"
    /\ file = NoDirFile
    /\ Present(state, last.name)
    /\ state.containers[last.name].status = "created"
    /\ \E m \in DOMAIN state.containers : state.containers[m].status = "stopped"

\* C2: start, stop, pause, unpause and remove of a name that is absent
\* return False, create no record, leave the map unchanged and do not
\* write the state file.
C2_Absent ==
    (/\ last'.op \in {"start", "stop", "pause", "unpause", "remove"}
     /\ ~Present(state, last'.name))
    => /\ last'.ret = "False"
       /\ state' = state
       /\ file' = file
       /\ ~last'.wrote
C2_AbsentIsRefused == [][C2_Absent]_vars

\* An operation on a missing name was refused while another container exists.
C2_Witness ==
    /\ last.op \in {"start", "stop", "pause", "unpause", "remove"}
    /\ last.ret = "False"
    /\ ~Present(state, last.name)
    /\ state.containers # NoContainers

\* C3: every change of an existing container's status is one of
\* created->running, running->stopped, running->paused, paused->running,
\* stopped->running.
StatusEdges ==
    {<<"created", "running">>, <<"running", "stopped">>,
     <<"running", "paused">>, <<"paused", "running">>,
     <<"stopped", "running">>}
C3_Edges ==
    \A n \in DOMAIN state.containers \cap DOMAIN state'.containers :
        state'.containers[n].status # state.containers[n].status
        => <<state.containers[n].status, state'.containers[n].status>>
               \in StatusEdges
C3_OnlyDocumentedEdges == [][C3_Edges]_vars

\* C4: remove(name) of a present container returns True and deletes the
\* whole record (get_container gives None, name is no key of
\* get_containers, the other records stay), and a create(name, image2)
\* that follows succeeds with a fresh record.
C4_Remove ==
    /\ (last'.op = "remove" /\ Present(state, last'.name)) =>
          /\ last'.ret = "True"
          /\ get_container(state', last'.name) = <<>>
          /\ last'.name \notin DOMAIN get_containers(state')
          /\ OthersSame(state, state', last'.name)
    /\ (/\ last.op = "remove" /\ last.ret = "True"
        /\ last'.op = "create" /\ last'.name = last.name) =>
          /\ last'.ret = "True"
          /\ get_container(state', last'.name) # <<>>
          /\ state'.containers[last'.name].status = "created"
          /\ state'.containers[last'.name].image = last'.image
          /\ state'.containers[last'.name].started_at = NoTime
          /\ state'.containers[last'.name].stopped_at = NoTime
C4_RemoveDeletes == [][C4_Remove]_vars

\* C4, with the save: remove(name) of a present container deletes the
\* whole record (get_container gives None, name is no key of
\* get_containers, the other records stay) and returns True when the state
\* file is written; when the file cannot be written it raises RuntimeError
\* with the record deleted in memory.  A create(name, image2) that follows
\* makes a fresh record, and returns True when the file is written.
C4_RemoveSaved ==
    /\ (last'.op = "remove" /\ Present(state, last'.name)) =>
          /\ last'.ret = IF file.kind = "nodir" THEN "RuntimeError"
                         ELSE "True"
          /\ file' = IF file.kind = "nodir" THEN file ELSE JsonFile(state')
          /\ get_container(state', last'.name) = <<>>
          /\ last'.name \notin DOMAIN get_containers(state')
          /\ OthersSame(state, state', last'.name)
    /\ (/\ last.op = "remove" /\ last.ret \in {"True", "RuntimeError"}
        /\ last'.op = "create" /\ last'.name = last.name) =>
          /\ last'.ret = IF file.kind = "nodir" THEN "RuntimeError"
                         ELSE "True"
          /\ get_container(state', last'.name) # <<>>
          /\ state'.containers[last'.name].status = "created"
          /\ state'.containers[last'.name].image = last'.image
          /\ state'.containers[last'.name].started_at = NoTime
          /\ state'.containers[last'.name].stopped_at = NoTime
C4_RemoveDeletesWhenSaved == [][C4_RemoveSaved]_vars

\* A container was removed while another one stayed.
C4_Witness ==
    /\ last.op = "remove"
    /\ last.ret = "True"
    /\ get_container(state, last.name) = <<>>
    /\ \E m \in DOMAIN state.containers :
          state.containers[m].started_at # NoTime

\* C5: when every save succeeds (the state file can be written), the state
\* file always holds the in-memory state (as JSON), so an instance
\* constructed on it has the same names, images and statuses.
Summary(st) ==
    [n \in DOMAIN st.containers |->
        [image |-> st.containers[n].image,
         status |-> st.containers[n].status]]
C5_WriteThrough ==
    (inst = "ready" /\ file.kind # "nodir") =>
        /\ _load_state(file).raised = ""
        /\ _load_state(file).state = JsonDoc(state)
        /\ Summary(_load_state(file).state) = Summary(state)

\* A second instance was constructed and found a paused container.
C5_Witness ==
    /\ last.op = "__init__"
    /\ inst = "ready"
    /\ \E n \in DOMAIN state.containers :
          state.containers[n].status = "paused"

\* C6: constructing on a state file that is missing, empty or not valid
\* JSON never fails and gives the empty state.
C6_ConstructNeverFails ==
    (last.op = "__init__" /\ file.kind \in {"missing", "empty", "garbage",
                                            "binary"})
    => /\ last.ret = "None"
       /\ inst = "ready"
       /\ state = _empty_state

(***************************************************************************)
(* Properties of the swarm name resolver and dispatcher                    *)
(***************************************************************************)
NonBlank(s) == s # <<>>

\* The non-empty trimmed fragments of a comma-separated string, in order.
TrimmedFragments(s) ==
    LET parts == Split(s, ",") IN
    SelectSeq([i \in DOMAIN parts |-> Strip(parts[i])], NonBlank)

StartsWith(s, p) == Len(s) >= Len(p) /\ SubSeq(s, 1, Len(p)) = p

Resolved == pc = "done" /\ req.op = "_get_services_names"

\* C7: for a services string with at least one non-empty fragment the
\* resolver returns the non-empty trimmed fragments in input order.
C7_TrimmedNonEmptyFragments ==
    (/\ Resolved
     /\ req.kw.hasServices
     /\ req.kw.stack = <<>>
     /\ TrimmedFragments(req.kw.services) # <<>>)
    => /\ ~res.exited
       /\ res.ret = TrimmedFragments(req.kw.services)

\* C8: without a services and an all argument the resolver returns the
\* empty list; with either of them and an empty services value it signals
\* SUGAR_INVALID_PARAMETER exactly once, all=True included.
C8_EmptyNames ==
    Resolved =>
        /\ (~req.kw.hasServices /\ ~req.kw.hasAll) =>
              res = Outcome(<<>>, <<>>, <<>>, FALSE)
        /\ ((req.kw.hasServices \/ req.kw.hasAll)
            /\ req.kw.services = <<>>) =>
              /\ res.errors = <<Error(SUGAR_INVALID_PARAMETER,
                                      MSG_ERROR_SERVICES_NAME)>>
              /\ reporter = "exit" => (res.exited /\ res.ret = <<>>)
        /\ (req.kw.all /\ req.kw.services = <<>>) => Len(res.errors) = 1

\* all=True without names was answered with the one error.
C8_Witness ==
    /\ Resolved
    /\ req.kw.all
    /\ ~req.kw.hasServices
    /\ Len(res.errors) = 1
    /\ reporter = "mock"

\* C9: with a stack, a fragment that already starts with 'stack_' is
\* returned unchanged and any other fragment as 'stack_' + fragment.
C9_IdempotentPrefix ==
    (/\ Resolved
     /\ req.kw.stack # <<>>
     /\ req.kw.services # <<>>
     /\ ~res.exited)
    => LET parts == Split(req.kw.services, ",")
           prefix == req.kw.stack \o <<"_">>
       IN /\ Len(res.ret) = Len(parts)
          /\ \A i \in DOMAIN parts :
                res.ret[i] = IF StartsWith(parts[i], prefix) THEN parts[i]
                             ELSE prefix \o parts[i]

\* C10: _call_command with services and nodes both non-empty signals
\* SUGAR_INVALID_PARAMETER and (raise_error not returning) makes no backend
\* call; no backend call ever carries both services and nodes.
C10_ServicesOrNodes ==
    (pc = "done" /\ req.op = "_call_command") =>
        /\ (req.services # <<>> /\ req.nodes # <<>>) =>
              /\ res.errors = <<Error(SUGAR_INVALID_PARAMETER,
                                      MSG_ERROR_BOTH)>>
              /\ reporter = "exit" => res.backend = <<>>
        /\ \A i \in DOMAIN res.backend :
              ~(res.backend[i].hasServices /\ res.backend[i].hasNodes)

\* The dispatcher was called with both lists and stopped at the error.
C10_Witness ==
    /\ pc = "done"
    /\ req.op = "_call_command"
    /\ req.services # <<>>
    /\ req.nodes # <<>>
    /\ reporter = "exit"
    /\ res.exited
    /\ res.backend = <<>>

(***************************************************************************)
(* Properties of the service, node and stack commands                      *)
(***************************************************************************)
ScaleDone == pc = "done" /\ req.op = "SugarSwarmService._cmd_scale"

\* A fragment 'n=r' with one '=', a name before it and a count after it.
WellFormedPair(f) ==
    LET parts == Split(f, "=")
    IN Len(parts) = 2 /\ parts[1] # <<>> /\ parts[2] # <<>>

\* C11: service scale with a non-blank stack s and replicas
\* 'n1=r1,...,nk=rk', every pair well formed, makes exactly one 'scale'
\* dispatcher call whose services are 's_n1=r1', ..., 's_nk=rk' in input
\* order and whose option tokens are the tokens of the options string in
\* their order; the call reaches the backend once, with the same targets.
C11_ScaleOneCall ==
    (/\ ScaleDone
     /\ Strip(req.stack) # <<>>
     /\ \A i \in DOMAIN Split(req.names, ",") :
           WellFormedPair(Split(req.names, ",")[i]))
    => LET frags == Split(req.names, ",")
           targets == [i \in DOMAIN frags |-> req.stack \o <<"_">> \o frags[i]]
       IN /\ res.calls = <<CommandCall("scale", TRUE, targets, FALSE, <<>>,
                                       _get_list_args(req.options))>>
          /\ Len(res.backend) = 1
          /\ res.backend[1].subcommand = "scale"
          /\ res.backend[1].services = targets
          /\ res.errors = <<>>
          /\ res.raised = ""
          /\ ~res.exited

C11_Witness ==
    /\ ScaleDone
    /\ req.names = <<"a", "=", "3", ",", "s", "=", "1">>
    /\ req.stack = <<"s">>
    /\ req.options = <<"-", "t", " ", " ", "-", "f">>
    /\ Len(res.calls) = 1
    /\ res.calls[1].services = << <<"s", "_", "a", "=", "3">>,
                                  <<"s", "_", "s", "=", "1">> >>
    /\ res.calls[1].options_args = << <<"-", "t">>, <<"-", "f">> >>

RollbackDone == pc = "done" /\ req.op = "SugarSwarmService._cmd_rollback"

\* C12: a boolean flag that is set appears as its backend token among the
\* option tokens of every backend call of the command: '--detach' for
\* service scale, '--detach' and '--quiet' for service rollback.
C12_FlagsPassed ==
    /\ (ScaleDone /\ req.detach)
       => \A i \in DOMAIN res.backend :
             \E j \in DOMAIN res.backend[i].options_args :
                res.backend[i].options_args[j] = DETACH
    /\ RollbackDone
       => \A i \in DOMAIN res.backend :
             /\ req.detach
                => \E j \in DOMAIN res.backend[i].options_args :
                      res.backend[i].options_args[j] = DETACH
             /\ req.quiet
                => \E j \in DOMAIN res.backend[i].options_args :
                      res.backend[i].options_args[j] = QUIET

\* A non-empty fragment with no '=', with more than one '=', or with an
\* empty service name.
MalformedPair(f) ==
    /\ f # <<>>
    /\ \/ Len(Split(f, "=")) # 2
       \/ Split(f, "=")[1] = <<>>

\* C13: service scale given a malformed pair reports
\* SUGAR_INVALID_PARAMETER and makes no backend call.
C13_MalformedPairRejected ==
    (/\ ScaleDone
     /\ reporter = "exit"
     /\ Strip(req.stack) # <<>>
     /\ \E i \in DOMAIN Split(req.names, ",") :
           MalformedPair(Split(req.names, ",")[i]))
    => /\ \E i \in DOMAIN res.errors :
             res.errors[i].code = SUGAR_INVALID_PARAMETER
       /\ res.backend = <<>>

PerformDone == pc = "done" /\ req.op = "_perform_service_rollback"

\* C14: one service's rollback succeeds exactly when the backend call
\* returns without raising and stderr is empty; a 'does not have a previous
\* spec' stderr, any other non-empty stderr and any exception each fail and
\* emit exactly one warning for that service; the backend is called once.
C14_RollbackClassification ==
    PerformDone
    => /\ res.ret = (~req.result.raises /\ req.result.stderr = "")
       /\ ~res.ret => /\ Len(res.out.warnings) = 1
                      /\ res.out.warnings[1].service = req.service
       /\ res.ret => res.out.warnings = <<>>
       /\ Len(res.out.backend) = 1
       /\ res.out.backend[1].service = req.service
       /\ res.out.raised = ""

C14_Witness ==
    /\ PerformDone
    /\ ~req.result.raises
    /\ req.result.stderr = "no such service: web"
    /\ req.service = <<"s", "_", "a">>
    /\ ~res.ret
    /\ res.out.warnings =
         <<Message("Failed to rollback service {service}: {err.strip()}",
                   <<"s", "_", "a">>, 0, 0)>>

IsSummary(p) == p.text = "Rollback complete: {ok} succeeded, {bad} failed"

\* C15: service rollback over a non-empty list of names never stops early:
\* every target gets exactly one backend rollback call, in list order, and
\* the run ends with exactly one summary line whose counts add up to the
\* number of targets, the failures being as many as the warnings.
C15_RollbackCoversAllTargets ==
    (RollbackDone /\ req.names # <<>>)
    => LET frags == Split(req.names, ",")
           targets == [i \in DOMAIN frags |->
                         IF req.stack # <<>>
                         THEN req.stack \o <<"_">> \o frags[i]
                         ELSE frags[i]]
           succeeded == {i \in DOMAIN frags :
                           /\ ~req.results[i].raises
                           /\ req.results[i].stderr = ""}
           summary == res.prints[Len(res.prints)]
       IN /\ Len(res.backend) = Len(targets)
          /\ \A i \in DOMAIN targets : res.backend[i].service = targets[i]
          /\ Len(SelectSeq(res.prints, IsSummary)) = 1
          /\ IsSummary(summary)
          /\ summary.ok = Cardinality(succeeded)
          /\ summary.ok + summary.bad = Len(targets)
          /\ Len(res.warnings) = summary.bad
          /\ res.trace[Len(res.trace)] = "print"
          /\ res.raised = ""
          /\ ~res.exited

C15_Witness ==
    /\ RollbackDone
    /\ req.names = <<"a", ",", "s", ",", "a">>
    /\ req.stack = <<"s">>
    /\ req.results = <<[raises |-> FALSE, stderr |-> ""],
                       [raises |-> FALSE, stderr |-> NO_PREVIOUS_SPEC],
                       [raises |-> FALSE, stderr |-> ""]>>
    /\ Len(res.backend) = 3
    /\ res.backend[3].service = <<"s", "_", "a">>
    /\ res.prints[Len(res.prints)].ok = 2
    /\ res.prints[Len(res.prints)].bad = 1
    /\ Len(res.warnings) = 1

\* C16: service rollback called with no service name makes no backend
\* rollback call, whether the error reporter exits or returns.
C16_NoNameNoBackendCall ==
    (RollbackDone /\ req.names = <<>>) => res.backend = <<>>

NodeDone == pc = "done" /\ req.op \in NodeOps

\* C17: a node command whose nodes string has no non-empty fragment signals
\* SUGAR_INVALID_PARAMETER 'Node name(s) must be provided' and, the reporter
\* ending the process, calls nothing; otherwise it makes exactly one
\* dispatcher call with its own subcommand, the non-empty fragments in
\* input order as nodes and no services argument.
C17_NodeCommands ==
    NodeDone
    => LET names == SelectSeq(Split(req.names, ","), NonBlank)
       IN IF names = <<>>
          THEN /\ res.errors = <<Error(SUGAR_INVALID_PARAMETER,
                                       "Node name(s) must be provided")>>
               /\ reporter = "exit" => /\ res.calls = <<>>
                                       /\ res.backend = <<>>
                                       /\ res.exited
          ELSE /\ res.errors = <<>>
               /\ Len(res.calls) = 1
               /\ <<req.op, res.calls[1].subcommand>> \in
                     {<<"SugarSwarmNode._cmd_demote", "demote">>,
                      <<"SugarSwarmNode._cmd_inspect", "inspect">>,
                      <<"SugarSwarmNode._cmd_promote", "promote">>,
                      <<"SugarSwarmNode._cmd_ps", "ps">>,
                      <<"SugarSwarmNode._cmd_rm", "rm">>,
                      <<"SugarSwarmNode._cmd_update", "update">>}
               /\ res.calls[1].hasNodes
               /\ res.calls[1].nodes = names
               /\ ~res.calls[1].hasServices
               /\ res.calls[1].options_args = _get_list_args(req.options)
               /\ Len(res.backend) = 1
               /\ res.backend[1].subcommand = res.calls[1].subcommand
               /\ res.backend[1].hasNodes
               /\ res.backend[1].nodes = names
               /\ ~res.backend[1].hasServices

C17_Witness ==
    /\ NodeDone
    /\ req.op = "SugarSwarmNode._cmd_promote"
    /\ req.names = <<"a", ",", ",", "s">>
    /\ req.options = <<"-", "f">>
    /\ Len(res.calls) = 1
    /\ res.calls[1].subcommand = "promote"
    /\ res.calls[1].nodes = << <<"a">>, <<"s">> >>
    /\ Len(res.backend) = 1

StackDone ==
    /\ pc = "done"
    /\ req.op \in {"SugarSwarmStack._cmd_deploy", "SugarSwarmStack._cmd_ls",
                   "SugarSwarmStack._cmd_ps", "SugarSwarmStack._cmd_rm"}

\* C18: a stack command called with an empty stack name first signals
\* SUGAR_INVALID_PARAMETER 'Stack name must be provided'; with the reporter
\* ending the process nothing is rendered and the backend is not called.
C18_EmptyStackRejected ==
    (StackDone /\ req.stack = <<>>)
    => /\ res.trace # <<>>
       /\ res.trace[1] = "raise_error"
       /\ res.errors[1] = Error(SUGAR_INVALID_PARAMETER,
                                "Stack name must be provided")
       /\ reporter = "exit" => /\ res.trace = <<"raise_error">>
                               /\ res.backend = <<>>

DeployDone == pc = "done" /\ req.op = "SugarSwarmStack._cmd_deploy"

\* C19: stack deploy with a non-empty stack name renders the compose
\* document and then makes exactly one backend call, with the backend args
\* 'stack deploy -c -', the stack name as target, the tokens of the options
\* string and the rendered YAML as stdin; when the rendering fails or comes
\* out empty an error is signalled and no deploy call is made.
C19_DeployRendersThenCalls ==
    (DeployDone /\ req.stack # <<>>)
    => LET text == req.compose.text
       IN IF req.compose.failed \/ text.blank
          THEN /\ res.errors # <<>>
               /\ res.backend = <<>>
               /\ res.trace[1] = "compose config"
          ELSE IF NormalizeRaises(text.doc)
          THEN res.backend = <<>>
          ELSE /\ res.trace = <<"compose config", "backend">>
               /\ res.errors = <<>>
               /\ res.backend =
                    <<StackCall(<<"stack", "deploy", "-c", "-">>, req.stack,
                                _get_list_args(req.options), TRUE,
                                safe_dump(_normalize_for_stack(text.doc)))>>

C19_Witness ==
    /\ DeployDone
    /\ req.stack = <<"s">>
    /\ req.options = <<"-", "t", " ", " ", "-", "f">>
    /\ ~req.compose.text.blank
    /\ req.compose.text.doc.hasName
    /\ "web" \in DOMAIN req.compose.text.doc.services
    /\ Len(res.backend) = 1
    /\ res.backend[1].options_args = << <<"-", "t">>, <<"-", "f">> >>
    /\ ~res.backend[1].stdin.doc.hasName
    /\ res.backend[1].stdin.doc.services["web"].ports[1].published = IntValue(80)

NormalizeDone == pc = "done" /\ req.op = "_normalize_for_stack"

\* The number a string of decimal digits denotes.
RECURSIVE Number(_)
Number(s) ==
    IF s = <<>> THEN 0
    ELSE LET d == CASE Head(s) = "0" -> 0 [] Head(s) = "8" -> 8
             RECURSIVE Pow10(_)
             Pow10(k) == IF k = 0 THEN 1 ELSE 10 * Pow10(k - 1)
         IN d * Pow10(Len(s) - 1) + Number(Tail(s))

\* w is what the claim allows for the value v of 'published' or 'target'.
Coerced(v, w) ==
    IF v.t = "str" /\ v.s # <<>> /\ \A i \in DOMAIN v.s : v.s[i] \in {"0", "8"}
    THEN w.t = "int" /\ w.n = Number(v.s)
    ELSE w = v

\* C20: _normalize_for_stack returns; it removes the top-level 'name'; in
\* every dict-form port entry of every service it replaces a 'published'
\* or 'target' that is a string of decimal digits by the equal integer;
\* other strings, integers, short-form entries and every other key stay as
\* they are; applying it to its result changes nothing.
C20_NormalizeForStack ==
    NormalizeDone
    => LET d == req.doc
           r == res.ret
       IN /\ res.raised = ""
          /\ ~r.hasName
          /\ r.version = d.version
          /\ DOMAIN r.services = DOMAIN d.services
          /\ \A k \in DOMAIN d.services :
                LET a == d.services[k]
                    b == r.services[k]
                IN /\ b.null = a.null
                   /\ b.hasPorts = a.hasPorts
                   /\ b.image = a.image
                   /\ Len(b.ports) = Len(a.ports)
                   /\ \A i \in DOMAIN a.ports :
                         LET p == a.ports[i]
                             q == b.ports[i]
                         IN /\ q.dict = p.dict
                            /\ q.mode = p.mode
                            /\ q.short = p.short
                            /\ IF p.dict
                               THEN /\ Coerced(p.published, q.published)
                                    /\ Coerced(p.target, q.target)
                               ELSE /\ q.published = p.published
                                    /\ q.target = p.target
          /\ _normalize_for_stack(r) = r

(***************************************************************************)
(* Properties of the extension, the log viewer and the remaining commands  *)
(***************************************************************************)
RealDone == ext = "real" /\ req.op = "AppleContainerExtension"

\* What _real_execute owes for one process outcome: value and stderr.
Owed(o, command) ==
    IF o.kind = "exit" THEN [ret |-> o.code, stderr |-> <<>>]
    ELSE IF o.kind = "FileNotFoundError"
    THEN [ret |-> 1,
          stderr |-> <<"Error: 'container' command not found. Please ensure Apple Container is installed.">>]
    ELSE [ret |-> 1, stderr |-> <<"Error executing {command}: {e}">>]

\* C21: in real mode a command returns an integer and never raises: the
\* child's return code when the process ran, 1 with the 'not found' line
\* when the binary is missing, 1 with the 'Error executing' line on any
\* other exception; it gives subprocess.run ['container', command,
\* services...] exactly once, except restart, which runs 'stop' and then,
\* only if that returned 0, 'start'.
C21_RealModeReturnsStatus ==
    RealDone =>
        LET Argv(c) == <<<<"container", c>> \o req.services>>
            first == Owed(req.outcomes[1], req.command)
        IN /\ res.raised = ""
           /\ res.ret \in Int
           /\ req.command # "restart" =>
                 /\ res.ret = first.ret
                 /\ res.stderr = first.stderr
                 /\ res.processes = Argv(req.command)
           /\ (req.command = "restart" /\ first.ret # 0) =>
                 /\ res.ret = first.ret
                 /\ res.stderr = first.stderr
                 /\ res.processes = Argv("stop")
           /\ (req.command = "restart" /\ first.ret = 0) =>
                 /\ res.ret = Owed(req.outcomes[2], req.command).ret
                 /\ res.stderr = Owed(req.outcomes[2], req.command).stderr
                 /\ res.processes = Argv("stop") \o Argv("start")

\* C22: a periodic refresh_logs call fires only while the logs screen is
\* shown and follow is on.
C22_NoRefreshAfterLeave == [][event' = "Timer" => (shown' /\ following')]_vars

SwarmDone == pc = "done" /\ req.op \in SwarmOps

\* C23: each SugarSwarm handler makes exactly one dispatcher call, with its
\* own docker swarm subcommand and the tokens of its options string.
C23_SwarmSubcommands ==
    SwarmDone =>
        /\ Len(res.calls) = 1
        /\ res.calls[1].subcommand =
              (CASE req.op = "SugarSwarm._cmd_ca" -> "ca"
                 [] req.op = "SugarSwarm._cmd_init" -> "init"
                 [] req.op = "SugarSwarm._cmd_join" -> "join"
                 [] req.op = "SugarSwarm._cmd_join_token" -> "join-token"
                 [] req.op = "SugarSwarm._cmd_leave" -> "leave"
                 [] req.op = "SugarSwarm._cmd_unlock" -> "unlock"
                 [] req.op = "SugarSwarm._cmd_unlock_key" -> "unlock-key")
        /\ res.calls[1].options_args = _get_list_args(req.options)

\* C24: _call_command without services makes exactly one backend call, with
\* the subcommand, the option tokens and cmd_args as given and in order;
\* with no nodes either it passes services=[] and no nodes, with nodes it
\* passes the nodes and no services.  The call returns nothing and the
\* backend_args of the object, ['swarm'] after _setup_load, are ['swarm']
\* after the call.
C24_CallCommandPassesThrough ==
    (pc = "done" /\ req.op = "_call_command" /\ req.services = <<>>) =>
        /\ self_backend_args = <<"swarm">>
        /\ res.errors = <<>>
        /\ res.ret = <<>>
        /\ Len(res.backend) = 1
        /\ res.backend[1].subcommand = req.subcommand
        /\ res.backend[1].options_args = req.options_args
        /\ res.backend[1].cmd_args = req.cmd_args
        /\ IF req.nodes = <<>>
           THEN /\ res.backend[1].hasServices
                /\ res.backend[1].services = <<>>
                /\ ~res.backend[1].hasNodes
           ELSE /\ res.backend[1].hasNodes
                /\ res.backend[1].nodes = req.nodes
                /\ ~res.backend[1].hasServices

\* _call_command('init', options_args=['--advertise-addr', '192.168.1.1'])
C24_Witness ==
    /\ pc = "done"
    /\ req.op = "_call_command"
    /\ req.subcommand = "init"
    /\ req.services = <<>>
    /\ req.nodes = <<>>
    /\ req.options_args = <<"--advertise-addr", "192.168.1.1">>
    /\ req.cmd_args = <<"--pretty">>
    /\ self_backend_args = <<"swarm">>
    /\ res.backend =
         <<BackendCall("init", TRUE, <<>>, FALSE, <<>>,
                       <<"--advertise-addr", "192.168.1.1">>,
                       <<"--pretty">>)>>

\* C25: rollback with a stack and no service name does not fail for the
\* missing name.
C25_StackRollback ==
    (RollbackDone /\ req.names = <<>> /\ req.stack # <<>>) =>
        /\ res.errors = <<>>
        /\ ~res.exited

GuardedDone ==
    /\ pc = "done"
    /\ req.op \in {"SugarSwarmService._cmd_inspect",
                   "SugarSwarmService._cmd_scale"}

\* C26: a handler wrapped by require_not_blank runs its body only if the
\* argument is not blank after stripping: inspect and scale with a blank or
\* whitespace-only stack, and scale with blank replicas, end with an error
\* (the process exits or ValueError is raised), never return normally, and
\* make no dispatcher or backend call.
C26_BlankArgumentStopsHandler ==
    (/\ GuardedDone
     /\ \/ Strip(req.stack) = <<>>
        \/ /\ req.op = "SugarSwarmService._cmd_scale"
           /\ Strip(req.names) = <<>>)
    => /\ res.exited \/ res.raised = "ValueError"
       /\ res.errors # <<>>
       /\ res.calls = <<>>
       /\ res.backend = <<>>

\* inspect of service 'a' with stack ' ' and a reporter that returns.
C26_Witness ==
    /\ pc = "done"
    /\ req.op = "SugarSwarmService._cmd_inspect"
    /\ req.stack = <<" ">>
    /\ req.services = <<"a">>
    /\ reporter = "mock"
    /\ res.raised = "ValueError"
    /\ res.backend = <<>>

WellFormedRecords ==
    \A n \in DOMAIN state.containers :
        /\ state.containers[n].status
               \in {"created", "running", "stopped", "paused"}
        /\ state.containers[n].image \in Images
        /\ state.containers[n].created_at \in Times

\* C27: from the empty state, after any sequence of runtime operations
\* every record has a status among created, running, stopped and paused, an
\* image and a created_at; a name is the key of one record, and create on a
\* name that has a record leaves the state as it was.
C27_WellFormedRecords ==
    /\ []WellFormedRecords
    /\ [][(last'.op = "create" /\ last'.name \in DOMAIN state.containers)
            => (state' = state /\ last'.ret = "False")]_vars

\* Both containers exist, one paused and one stopped, and a create on an
\* existing name has just been refused.
C27_Witness ==
    /\ DOMAIN state.containers = {"c1", "c2"}
    /\ state.containers["c1"].status = "paused"
    /\ state.containers["c2"].status = "stopped"
    /\ last.op = "create"
    /\ last.ret = "False"

\* C28: in LogsScreen a refresh timer exists exactly when following is
\* true, self._interval holds it exactly then, and there is never more than
\* one.
C28_OneTimerIffFollowing ==
    /\ following <=> _interval = "Timer"
    /\ timers = IF following THEN 1 ELSE 0

\* Follow was turned on with the button and the timer runs.
C28_Witness ==
    /\ shown
    /\ event = "follow-btn"
    /\ following
    /\ _interval = "Timer"
    /\ timers = 1

DummyDone == ext = "dummy" /\ req.op = "AppleContainerExtension"

\* C29: in dummy mode down removes every container record whatever the
\* services argument is, and returns 0.
C29_DownRemovesAll ==
    (DummyDone /\ req.command = "down") =>
        /\ state.containers = NoContainers
        /\ res.ret = 0
        /\ \A call \in res.runtime : call.method = "remove"

\* C29, with the save: in dummy mode down calls remove for the names of
\* the container map, whatever the services argument is.  When the state
\* file is written (or the map is empty) every record is removed and the
\* call returns 0; when the file cannot be written the first remove
\* raises, the call returns 1 with the error on stderr, only the first
\* record is gone from memory and the file is as it was.
C29_Down ==
    (ext = "dummy" /\ req'.op = "AppleContainerExtension"
     /\ req'.command = "down") =>
        IF file.kind # "nodir" \/ state.keys = <<>>
        THEN /\ state'.containers = NoContainers
             /\ res'.ret = 0
             /\ res'.stderr = <<>>
             /\ res'.runtime =
                   {[method |-> "remove", name |-> n, ret |-> "True"] :
                       n \in DOMAIN state.containers}
        ELSE /\ res'.ret = 1
             /\ res'.stderr = <<"Error executing {command}: {e}">>
             /\ res'.runtime =
                   {[method |-> "remove", name |-> Head(state.keys),
                     ret |-> "RuntimeError"]}
             /\ DOMAIN state'.containers =
                   DOMAIN state.containers \ {Head(state.keys)}
             /\ OthersSame(state, state', Head(state.keys))
             /\ file' = file
C29_DownRemovesAllWhenSaved == [][C29_Down]_vars

\* down(['c1']) on a state that held c1 and c2.
C29_Witness ==
    /\ DummyDone
    /\ req.command = "down"
    /\ req.services = <<"c1">>
    /\ {call.name : call \in res.runtime} = {"c1", "c2"}
    /\ state.containers = NoContainers
    /\ res.ret = 0

\* C30: in dummy mode a command other than create, start, stop, restart and
\* down returns 0 and leaves the runtime's state and its file as they were;
\* start and stop return 0 and add no record, also for a missing service.
C30_OnlyFiveCommandsChangeState ==
    [][(ext = "dummy" /\ ext' = "dummy") =>
         /\ req'.command \notin {"create", "start", "stop", "restart", "down"}
               => (state' = state /\ file' = file /\ res'.runtime = {}
                   /\ res'.raised = "" /\ res'.ret = 0)
         /\ req'.command \in {"start", "stop"}
               => (res'.ret = 0
                   /\ DOMAIN state'.containers = DOMAIN state.containers)]_vars

====
